---------------------------- MODULE Spec2Model ----------------------------
(***************************************************************************)
(* Crawl-orchestration engine of the map-listing scraper: the rate         *)
(* limiter, the retry policy, the proxy pool and the crawl job state       *)
(* machine with its persistence, modelled from the Python sources.         *)
(*                                                                         *)
(* Each component has its own specification over the shared variables:     *)
(*   SpecRL     RateLimiter (src/scraper/rate_limiter.py)                  *)
(*   SpecRetry  retry_async (src/scraper/error_handler.py)                 *)
(*   SpecProxy  ProxyManager (src/scraper/proxy_manager.py)                *)
(*   SpecJob    EnhancedGoogleMapsScraper + run_scrape_job, one job        *)
(*   SpecJobs   the same, two jobs running concurrently                    *)
(*   SpecSession  SessionManager (src/scraper/session_manager.py)          *)
(*   SpecFind   AdvancedDeduplicator.find_duplicates                       *)
(*   SpecMerge  AdvancedDeduplicator._merge_leads                          *)
(*   SpecDedup  AdvancedDeduplicator.deduplicate_database                  *)
(*   SpecPhone  AdvancedDeduplicator.normalize_phone                       *)
(*   SpecScore  BusinessLead.calculate_quality_score                       *)
(*   SpecShared  one RateLimiter used by concurrent callers                *)
(*   SpecRecovery  ErrorRecovery (src/scraper/error_handler.py)            *)
(*   SpecCancel  SpecJob, with the background task cancelled at an await   *)
(* A specification leaves the variables of the other components at their   *)
(* constructed values.                                                     *)
(***************************************************************************)
EXTENDS Integers, Sequences, FiniteSets, TLC

VARIABLES
    \* ---- RateLimiter (one instance) and its callers
    now,            \* the clock read by datetime.now(), in ticks
    rate_limiter,   \* the fields of the RateLimiter object
    w_pc,           \* where the wait_if_needed() call in progress is suspended
    w_wake,         \* the time its asyncio.sleep() is due
    admitted,       \* every timestamp wait_if_needed() has recorded, in order
    \* ---- one call of retry_async
    retry,          \* its arguments, its locals and what it has done so far
    \* ---- ProxyManager (one instance)
    pool,           \* the fields of the ProxyManager object
    p_result,       \* what the last get_next_proxy() call did
    \* ---- crawl jobs
    jobs,           \* the scrape_jobs table: one row per job
    leads,          \* the business_leads table: how many rows of each kind
    error_counts,   \* error_recovery.error_counts (a process-wide singleton)
    scraper,        \* per job: the scraper object and the locals of its run
    observed,       \* what has happened to each job so far
    \* ---- SessionManager (one instance)
    session_manager,\* the fields of the SessionManager object
    s_obs,          \* the sessions closed and handed out, and the last call
    \* ---- AdvancedDeduplicator and BusinessLead
    fd,             \* one call of find_duplicates: lead, corpus, result
    mg,             \* one call of _merge_leads: primary, duplicate, result
    dd,             \* one pass of deduplicate_database over a corpus
    ph,             \* one phone number and its normalizations
    qs,             \* one lead and its quality score
    \* ---- a RateLimiter shared by concurrent callers
    callers,        \* per caller: where its wait_if_needed() call is suspended
    \* ---- ErrorRecovery (one instance)
    er,             \* the registry, and the last call of handle_error
    \* ---- the save step of the crawl loop
    sv              \* one extracted record, the table, and what is returned

rlVars == <<now, rate_limiter, w_pc, w_wake, admitted>>
retryVars == <<retry>>
proxyVars == <<pool, p_result>>
jobVars == <<jobs, leads, error_counts, scraper, observed>>
sessionVars == <<session_manager, s_obs>>
dedupVars == <<fd, mg, dd, ph, qs>>
moreVars == <<callers, er, sv>>

vars == <<rlVars, retryVars, proxyVars, jobVars, sessionVars, dedupVars, moreVars>>

notRL == <<retryVars, proxyVars, jobVars, sessionVars, dedupVars, moreVars>>
notRetry == <<rlVars, proxyVars, jobVars, sessionVars, dedupVars, moreVars>>
notProxy == <<rlVars, retryVars, jobVars, sessionVars, dedupVars, moreVars>>
notJob == <<rlVars, retryVars, proxyVars, sessionVars, dedupVars, moreVars>>
notSession == <<retryVars, proxyVars, jobVars, dedupVars, moreVars>>
notDedup == <<rlVars, retryVars, proxyVars, jobVars, sessionVars, moreVars>>
notShared == <<retryVars, proxyVars, jobVars, sessionVars, dedupVars, er, sv>>
notRecovery == <<rlVars, retryVars, proxyVars, jobVars, sessionVars, dedupVars, callers, sv>>
notSave == <<rlVars, retryVars, proxyVars, jobVars, sessionVars, dedupVars, callers, er>>

None == "None"

\* Python's None in a field that holds a time.
NoTime == 0 - 1

Min(a, b) == IF a < b THEN a ELSE b

RECURSIVE Pow2(_)
Pow2(n) == IF n <= 0 THEN 1 ELSE 2 * Pow2(n - 1)

(***************************************************************************)
(* RateLimiter                                                             *)
(*                                                                         *)
(* Time is counted in ticks.  One hour is Hour ticks and one minute is     *)
(* Minute ticks; the configured delays are given in ticks as well.         *)
(***************************************************************************)
MaxTime == 9              \* the clock stops here
Hour == 5                 \* timedelta(hours=1)
Minute == 2               \* timedelta(minutes=1), and the fixed 60 s sleep
MaxPerHour == 2           \* max_requests_per_hour
MaxPerMinute == 1         \* max_requests_per_minute
BaseDelayMin == 1         \* base_delay_min
BaseDelayMax == 2         \* base_delay_max
CooldownAfterError == 2   \* cooldown_after_error
MaxErrors == 5            \* record_error is not called beyond this count

BackoffCap == 8           \* min(2 ** consecutive_errors, 8)
CooldownThreshold == 3    \* consecutive_errors >= 3 enters cooldown
UnhealthyThreshold == 5   \* is_healthy: consecutive_errors < 5

BaseDelays == BaseDelayMin..BaseDelayMax

\* RateLimiter.__init__
NewRateLimiter ==
    [ requests_history   |-> << >>,
      last_request_time  |-> NoTime,
      consecutive_errors |-> 0,
      is_in_cooldown     |-> FALSE,
      cooldown_until     |-> NoTime,
      total_requests     |-> 0 ]

\* enter_cooldown() at time t
enter_cooldown(r, t) ==
    [r EXCEPT !.is_in_cooldown = TRUE,
              !.cooldown_until = t + CooldownAfterError]

\* record_error(trigger_cooldown) at time t
record_error(r, trigger_cooldown, t) ==
    LET r1 == [r EXCEPT !.consecutive_errors = @ + 1]
    IN  IF trigger_cooldown /\ r1.consecutive_errors >= CooldownThreshold
        THEN enter_cooldown(r1, t)
        ELSE r1

\* record_success()
record_success(r) == [r EXCEPT !.consecutive_errors = 0]

\* is_healthy()
is_healthy(r) ==
    r.consecutive_errors < UnhealthyThreshold /\ ~r.is_in_cooldown

\* while self.requests_history and self.requests_history[0] < cutoff_time: popleft()
RECURSIVE EvictOld(_, _)
EvictOld(h, cutoff) ==
    IF h # << >> /\ h[1] < cutoff THEN EvictOld(Tail(h), cutoff) ELSE h

\* A count over a window that is one tick too short.
RecentRequestsShortWindow(h, minute_ago) ==
    Cardinality({i \in DOMAIN h : h[i] > minute_ago + 1})

\* sum(1 for req_time in self.requests_history if req_time > minute_ago)
RecentRequests(h, minute_ago) ==
    Cardinality({i \in DOMAIN h : h[i] > minute_ago})

\* A limiter that lets one request too many into the hour.
HourlyLimitOffByOne(h) == Len(h) > MaxPerHour

\* The comparison that decides whether the hourly cap is reached.
HourlyLimitReached(h) == Len(h) >= MaxPerHour

\* A step of wait_if_needed() yields the limiter's fields, the suspension
\* point reached ("idle" when the call has returned) and the wake-up time.
Outcome(r, pc, wake, adm) == [rl |-> r, pc |-> pc, wake |-> wake, adm |-> adm]

\* "Record this request": lines 92-96.
StepRecord(r, t) ==
    Outcome([r EXCEPT !.requests_history = Append(@, t),
                      !.last_request_time = t,
                      !.total_requests = @ + 1],
            "idle", 0, <<t>>)

\* "Apply base delay between requests": lines 75-90; d is random.uniform's draw.
StepBaseDelay(r, t, d) ==
    IF r.last_request_time # NoTime
    THEN LET base_delay == IF r.consecutive_errors > 0
                           THEN d * Min(Pow2(r.consecutive_errors), BackoffCap)
                           ELSE d
             time_since_last == t - r.last_request_time
         IN  IF time_since_last < base_delay
             THEN Outcome(r, "base_sleep", t + (base_delay - time_since_last), << >>)
             ELSE StepRecord(r, t)
    ELSE StepRecord(r, t)

\* "Check minute limit": lines 65-73.
StepMinute(r, t, d) ==
    IF RecentRequests(r.requests_history, t - Minute) >= MaxPerMinute
    THEN Outcome(r, "minute_sleep", t + Minute, << >>)
    ELSE StepBaseDelay(r, t, d)

\* "Clean old requests" and "Check hourly limit": lines 49-63.
StepHourly(r, t, d) ==
    LET h  == EvictOld(r.requests_history, t - Hour)
        r1 == [r EXCEPT !.requests_history = h]
    IN  IF HourlyLimitReached(h) /\ (h[1] + Hour) - t > 0
        THEN Outcome(r1, "hour_sleep", h[1] + Hour, << >>)
        ELSE StepMinute(r1, t, d)

\* Leaving the cooldown: lines 46-47.
ClearCooldown(r) ==
    [r EXCEPT !.is_in_cooldown = FALSE, !.cooldown_until = NoTime]

\* A gate that leaves the cooldown without waiting for its end.
StepCooldownNoWait(r, t, d) ==
    IF r.is_in_cooldown THEN StepHourly(ClearCooldown(r), t, d)
                        ELSE StepHourly(r, t, d)

\* "Check if in cooldown": lines 41-47.
StepCooldown(r, t, d) ==
    IF r.is_in_cooldown
    THEN IF t < r.cooldown_until
         THEN Outcome(r, "cooldown_sleep", r.cooldown_until, << >>)
         ELSE StepHourly(ClearCooldown(r), t, d)
    ELSE StepHourly(r, t, d)

\* The code that runs when the sleep at suspension point pc returns.
Resume(pc, r, t, d) ==
    CASE pc = "cooldown_sleep" -> StepHourly(ClearCooldown(r), t, d)
      [] pc = "hour_sleep"     -> StepMinute(r, t, d)
      [] pc = "minute_sleep"   -> StepBaseDelay(r, t, d)
      [] pc = "base_sleep"     -> StepRecord(r, t)

Apply(o) ==
    /\ rate_limiter' = o.rl
    /\ w_pc' = o.pc
    /\ w_wake' = o.wake
    /\ admitted' = admitted \o o.adm

RLConstructed ==
    /\ now = 0
    /\ rate_limiter = NewRateLimiter
    /\ w_pc = "idle"
    /\ w_wake = 0
    /\ admitted = << >>

\* Time passes.
Tick ==
    /\ now < MaxTime
    /\ now' = now + 1
    /\ UNCHANGED <<rate_limiter, w_pc, w_wake, admitted>>
    /\ UNCHANGED notRL

\* A caller enters wait_if_needed().  Calls are made one after another, and
\* the clock has moved on since the previous call recorded its timestamp.
WaitIfNeededCall ==
    /\ w_pc = "idle"
    /\ rate_limiter.last_request_time # NoTime => now > rate_limiter.last_request_time
    /\ \E d \in BaseDelays : Apply(StepCooldown(rate_limiter, now, d))
    /\ UNCHANGED now
    /\ UNCHANGED notRL

\* asyncio.sleep() returns, at its due time or later.
WaitIfNeededWake ==
    /\ w_pc # "idle"
    /\ now >= w_wake
    /\ \E d \in BaseDelays : Apply(Resume(w_pc, rate_limiter, now, d))
    /\ UNCHANGED now
    /\ UNCHANGED notRL

RecordError ==
    /\ w_pc = "idle"
    /\ rate_limiter.consecutive_errors < MaxErrors
    /\ \E trigger_cooldown \in BOOLEAN :
          rate_limiter' = record_error(rate_limiter, trigger_cooldown, now)
    /\ UNCHANGED <<now, w_pc, w_wake, admitted>>
    /\ UNCHANGED notRL

RecordSuccess ==
    /\ w_pc = "idle"
    /\ rate_limiter' = record_success(rate_limiter)
    /\ UNCHANGED <<now, w_pc, w_wake, admitted>>
    /\ UNCHANGED notRL

EnterCooldown ==
    /\ w_pc = "idle"
    /\ rate_limiter' = enter_cooldown(rate_limiter, now)
    /\ UNCHANGED <<now, w_pc, w_wake, admitted>>
    /\ UNCHANGED notRL

NextRL ==
    \/ Tick
    \/ WaitIfNeededCall
    \/ WaitIfNeededWake
    \/ RecordError
    \/ RecordSuccess
    \/ EnterCooldown


(***************************************************************************)
(* retry_async                                                             *)
(*                                                                         *)
(* One call retry_async(func, max_retries, base_delay, exponential_backoff,*)
(* on_error).  An invocation of func returns ("ok"), raises FatalError     *)
(* ("fatal") or raises another exception ("error"); the exception raised   *)
(* and the value returned by invocation number k are identified by k.      *)
(***************************************************************************)
MaxRetries == 3           \* max_retries ranges over 0..MaxRetries
MaxBaseDelay == 2         \* base_delay ranges over 1..MaxBaseDelay

InvocationOutcomes == {"ok", "error", "fatal"}

\* Lines 45-47: the arguments and last_exception = None, before the loop.
NewRetry(max_retries, base_delay, exponential_backoff, has_on_error) ==
    [ max_retries         |-> max_retries,
      base_delay          |-> base_delay,
      exponential_backoff |-> exponential_backoff,
      has_on_error        |-> has_on_error,
      attempt             |-> 0,
      pc                  |-> "loop",
      last_exception      |-> << >>,
      result              |-> << >>,
      raised              |-> << >>,
      outcomes            |-> << >>,
      log                 |-> << >> ]

\* A loop over range(max_retries).
AttemptsOffByOne(max_retries) == max_retries

\* for attempt in range(max_retries + 1)
Attempts(max_retries) == max_retries + 1

\* A retry loop without the except FatalError clause.
NeverFatal(outcome) == FALSE

\* except FatalError
IsFatal(outcome) == outcome = "fatal"

\* Lines 63-66.
RetryDelay(r) ==
    IF r.exponential_backoff
    THEN r.base_delay * Pow2(r.attempt)
    ELSE r.base_delay

\* What "await on_error(e, attempt)" does: it returns or raises.
CallbackOutcomes == {"ok", "raise"}

\* The callback, if any, and what line 78 logs when it raises.
CallOnError(r, callback) ==
    IF r.has_on_error
    THEN << <<"on_error", r.attempt>> >>
            \o (IF callback = "raise" THEN << <<"callback_error", r.attempt>> >>
                                      ELSE << >>)
    ELSE << >>

\* A retry that sleeps first and calls the callback afterwards.
BeforeRetrySleepFirst(r, callback) ==
    << <<"sleep", RetryDelay(r)>> >> \o CallOnError(r, callback)

\* Lines 73-80: the callback (whose own failure is only logged), then the sleep.
BeforeRetry(r, callback) ==
    CallOnError(r, callback) \o << <<"sleep", RetryDelay(r)>> >>

\* One iteration of the loop, lines 47-82, with the outcome of func.
RetryIteration(r, outcome, callback) ==
    LET r1 == [r EXCEPT !.outcomes = Append(@, outcome),
                        !.log = Append(@, <<"call", r.attempt>>)]
    IN  IF outcome = "ok"
        THEN [r1 EXCEPT !.pc = "returned", !.result = <<"value", r.attempt>>]
        ELSE IF IsFatal(outcome)
        THEN [r1 EXCEPT !.pc = "raised", !.raised = <<"FatalError", r.attempt>>]
        ELSE LET r2 == [r1 EXCEPT !.last_exception = <<"Exception", r.attempt>>]
             IN  IF r.attempt < r.max_retries
                 THEN [r2 EXCEPT !.log = @ \o BeforeRetry(r, callback), !.attempt = @ + 1]
                 ELSE [r2 EXCEPT !.attempt = @ + 1]

\* Lines 84-86: after the loop.
RetryExhausted(r) ==
    IF r.last_exception # << >>
    THEN [r EXCEPT !.pc = "raised", !.raised = r.last_exception]
    ELSE [r EXCEPT !.pc = "returned", !.result = <<"None">>]

RetryConstructed == retry = NewRetry(0, 1, FALSE, FALSE)

RetryCalled ==
    \E m \in 0..MaxRetries, b \in 1..MaxBaseDelay, e \in BOOLEAN, c \in BOOLEAN :
        retry = NewRetry(m, b, e, c)

\* The loop runs func once more.
RetryInvoke ==
    /\ retry.pc = "loop"
    /\ retry.attempt < Attempts(retry.max_retries)
    /\ \E outcome \in InvocationOutcomes, callback \in CallbackOutcomes :
          retry' = RetryIteration(retry, outcome, callback)
    /\ UNCHANGED notRetry

\* The loop is over.
RetryGiveUp ==
    /\ retry.pc = "loop"
    /\ retry.attempt >= Attempts(retry.max_retries)
    /\ retry' = RetryExhausted(retry)
    /\ UNCHANGED notRetry

NextRetry ==
    \/ RetryInvoke
    \/ RetryGiveUp

(***************************************************************************)
(* ProxyManager                                                            *)
(***************************************************************************)
NProxies == 3             \* the sources list the proxies 1..NProxies
MaxTest == 2              \* max_test ranges over 0..MaxTest

ProxyIds == 1..NProxies

Range(f) == {f[i] : i \in DOMAIN f}

\* The sequences of distinct members of S, at most k long.
DistinctSeqs(S, k) ==
    UNION {{q \in [1..n -> S] : \A a, b \in 1..n : a # b => q[a] # q[b]} : n \in 0..k}

\* ProxyManager.__init__
NewProxyManager ==
    [ proxies             |-> << >>,
      working_proxies     |-> << >>,
      failed_proxies      |-> {},
      fresh               |-> FALSE,
      current_proxy_index |-> 0 ]

\* list.remove(x): drops the first occurrence
RECURSIVE RemoveFirst(_, _)
RemoveFirst(q, x) ==
    IF q = << >> THEN << >>
    ELSE IF q[1] = x THEN Tail(q)
    ELSE <<q[1]>> \o RemoveFirst(Tail(q), x)

\* fetch_free_proxies(): all_proxies is what the sources answered
fetch_free_proxies(m, all_proxies) ==
    [m EXCEPT !.proxies = all_proxies, !.fresh = TRUE]

\* refresh_working_proxies(max_test): stale says that last_refresh is more
\* than an hour old, all_proxies is what a fetch answers, tested_ok the
\* sampled proxies whose test succeeded, in sampling order.
refresh_working_proxies(m, stale, all_proxies, tested_ok) ==
    LET m1 == IF m.proxies = << >> \/ (m.fresh /\ stale)
              THEN fetch_free_proxies(m, all_proxies)
              ELSE m
    IN  [m1 EXCEPT !.working_proxies = tested_ok]

\* The list refresh_working_proxies samples from.
Refreshed(m, stale, all_proxies) ==
    IF m.proxies = << >> \/ (m.fresh /\ stale) THEN all_proxies ELSE m.proxies

\* get_next_proxy(): the manager afterwards and what the call did
get_next_proxy(m) ==
    IF m.working_proxies = << >>
    THEN [pool |-> m, kind |-> "none", proxy |-> 0, healthy |-> {}]
    ELSE IF m.current_proxy_index + 1 \in DOMAIN m.working_proxies
    THEN [pool |-> [m EXCEPT !.current_proxy_index =
                                (@ + 1) % Len(m.working_proxies)],
          kind |-> "proxy",
          proxy |-> m.working_proxies[m.current_proxy_index + 1],
          healthy |-> Range(m.working_proxies)]
    ELSE [pool |-> m, kind |-> "IndexError", proxy |-> 0,
          healthy |-> Range(m.working_proxies)]

\* mark_proxy_failed(proxy)
mark_proxy_failed(m, proxy) ==
    [m EXCEPT !.failed_proxies = @ \cup {proxy},
              !.working_proxies = RemoveFirst(@, proxy)]

ProxyConstructed ==
    /\ pool = NewProxyManager
    /\ p_result = [kind |-> "init", proxy |-> 0, healthy |-> {}]

RefreshWorkingProxies ==
    /\ \E stale \in BOOLEAN, max_test \in 0..MaxTest :
       \E all_proxies \in DistinctSeqs(ProxyIds, NProxies) :
       \E tested_ok \in DistinctSeqs(Range(Refreshed(pool, stale, all_proxies)), max_test) :
           pool' = refresh_working_proxies(pool, stale, all_proxies, tested_ok)
    /\ UNCHANGED p_result
    /\ UNCHANGED notProxy

GetNextProxy ==
    /\ LET o == get_next_proxy(pool)
       IN  /\ pool' = o.pool
           /\ p_result' = [kind |-> o.kind, proxy |-> o.proxy, healthy |-> o.healthy]
    /\ UNCHANGED notProxy

MarkProxyFailed ==
    /\ \E proxy \in ProxyIds : pool' = mark_proxy_failed(pool, proxy)
    /\ UNCHANGED p_result
    /\ UNCHANGED notProxy

NextProxy ==
    \/ RefreshWorkingProxies
    \/ GetNextProxy
    \/ MarkProxyFailed

(***************************************************************************)
(* Crawl jobs: EnhancedGoogleMapsScraper.search_and_scrape, started by the *)
(* API's background task run_scrape_job (origin "api") or called without a *)
(* job id, as BulkLocationScraper does (origin "direct").                  *)
(*                                                                         *)
(* The page-automation calls are inputs: getting a page and searching      *)
(* succeed or raise after their retries, a listing yields a record (with   *)
(* or without a place_id) or nothing, and a statement of the loop body may *)
(* raise.  The database answers every query and update.                    *)
(***************************************************************************)
MaxListings == 6          \* listings discovered by a job running alone
MaxShared == 3            \* listings discovered by concurrent jobs, in total

MaxBatchListings == 10    \* listings discovered by a job that fills a batch
MaxConsecutiveFailures == 5   \* max_consecutive_failures
BatchSize == 10           \* the batch of the loop's batch delay
ListingRetries == 2       \* max_retries of _scrape_single_listing

Jobs == {1, 2}                \* ScrapeJob.id, handed out in order
Origins == {"api", "direct"}
Messages == {"m1", "m2"}      \* str(e) of the exceptions raised
PlaceIds == {None, "p1"}      \* the place_id of an extracted record
ErrorNames == {"TypeError", "Exception"}

\* ScrapeJob(...) with the column defaults of models.py
NewJob(status) ==
    [ status        |-> status,
      leads_scraped |-> 0,
      error_count   |-> 0,
      last_error    |-> None ]

NoJob == NewJob("absent")

\* _update_job_progress(job_id, leads_scraped)
update_job_progress(job, leads_scraped) ==
    [job EXCEPT !.leads_scraped = leads_scraped]

\* An update that drops the error it is given.
update_job_status_without_error(job, status, leads_scraped, error) ==
    [job EXCEPT !.status = status, !.leads_scraped = leads_scraped]

\* An update that writes 0 for the count whatever it is given.
update_job_status_zero_count(job, status, leads_scraped, error) ==
    LET job1 == [job EXCEPT !.status = status, !.leads_scraped = 0]
    IN  IF error # None
        THEN [job1 EXCEPT !.last_error = error, !.error_count = @ + 1]
        ELSE job1

\* _update_job_status(job_id, status, leads_scraped, error)
update_job_status(job, status, leads_scraped, error) ==
    LET job1 == [job EXCEPT !.status = status, !.leads_scraped = leads_scraped]
    IN  IF error # None
        THEN [job1 EXCEPT !.last_error = error, !.error_count = @ + 1]
        ELSE job1

\* run_scrape_job's except clause: api/main.py lines 156-166
mark_job_failed(job, error) ==
    [job EXCEPT !.status = "failed", !.last_error = error, !.error_count = @ + 1]

\* A row of business_leads, as far as the crawl is concerned: its place_id
\* and the job that saved it.
LeadRows == [place_id : PlaceIds, job : Jobs]

\* The rows of the table with this place_id.
RowsWith(table, place_id) ==
    {row \in LeadRows : row.place_id = place_id /\ table[row] > 0}

\* _save_to_database: the query for a lead with the same place_id
ExistingLead(table, place_id) ==
    place_id # None /\ RowsWith(table, place_id) # {}

\* A place_id column without the unique constraint.
NoUniqueConstraint(table, place_id) == FALSE

\* place_id = Column(..., unique=True, nullable=True): the commit is refused
UniqueViolation(table, place_id) ==
    place_id # None /\ RowsWith(table, place_id) # {}

\* session.add(lead); session.commit()
InsertLead(table, place_id, j) ==
    [table EXCEPT ![[place_id |-> place_id, job |-> j]] = @ + 1]

\* wait_if_needed() as far as the fields the crawl loop reads are concerned:
\* it leaves the cooldown and counts the request.
PassGate(r) == [ClearCooldown(r) EXCEPT !.total_requests = @ + 1]

\* ErrorRecovery.handle_error: the occurrence count (no strategy is
\* registered for the errors raised here, so nothing is recovered)
handle_error(counts, name) == [counts EXCEPT ![name] = @ + 1]

NewScraper ==
    [ pc                   |-> "none",
      origin               |-> "api",
      rate_limiter         |-> NewRateLimiter,
      todo                 |-> 0,       \* len(listing_links[:max_results])
      i                    |-> 0,       \* the loop index
      results              |-> 0,       \* len(results)
      consecutive_failures |-> 0,
      place_id             |-> None,    \* of the record being saved
      error                |-> None,    \* str(e) of the exception in flight
      admissions           |-> 0,       \* wait_if_needed() calls for this listing
      attempts             |-> 0,       \* fetches of this listing's detail
      paused_at            |-> 0,       \* total_requests at the last batch pause
      batch_pause          |-> 0 ]      \* seconds slept by the last batch pause

NewObserved ==
    [ setup_error |-> [j \in Jobs |-> None],    \* the exception that escaped the setup
      fetched     |-> [j \in Jobs |-> FALSE],   \* the detail of some listing was fetched
      dropped     |-> [j \in Jobs |-> FALSE],   \* some listing yielded no record
      outcome     |-> [j \in Jobs |-> "none"],  \* of search_and_scrape: "returned", "raised"
      events      |-> [j \in Jobs |-> << >>],   \* the messages broadcast about the job
      save        |-> "none" ]                  \* of the last _save_to_database

JobsConstructed ==
    /\ jobs = [j \in Jobs |-> NoJob]
    /\ leads = [row \in LeadRows |-> 0]
    /\ error_counts = [n \in ErrorNames |-> 0]
    /\ scraper = [j \in Jobs |-> NewScraper]
    /\ observed = NewObserved

\* The id the next job row gets (autoincrement).
NextJobId(j) == \A k \in Jobs : k < j => jobs[k].status # "absent"

RECURSIVE SumTodo(_)
SumTodo(S) ==
    IF S = {} THEN 0
    ELSE LET j == CHOOSE x \in S : TRUE
         IN  scraper[j].todo + SumTodo(S \ {j})

\* manager.broadcast({'type': ..., 'job_id': j, ...}); count is the
\* results_count of a job_completed message.
Broadcast(obs, j, type, count) ==
    [obs EXCEPT !.events[j] = Append(@, [type |-> type, count |-> count])]

\* POST /api/scrape and /api/bulk-scrape: the job row is created and the
\* background task scheduled; start_scrape then broadcasts job_started,
\* start_bulk_scrape broadcasts nothing.
StartScrape(j) ==
    /\ scraper[j].pc = "none"
    /\ NextJobId(j)
    /\ jobs' = [jobs EXCEPT ![j] = NewJob("pending")]
    /\ scraper' = [scraper EXCEPT ![j].pc = "initialize", ![j].origin = "api"]
    /\ \E bulk \in BOOLEAN :
          observed' = IF bulk THEN observed
                      ELSE Broadcast(observed, j, "job_started", 0)
    /\ UNCHANGED <<leads, error_counts>>
    /\ UNCHANGED notJob

\* run_scrape_job: scraper.initialize() returns, or raises and the except
\* clause marks the job failed.
RunScrapeJob(j) ==
    /\ scraper[j].pc = "initialize"
    /\ \/ /\ scraper' = [scraper EXCEPT ![j].pc = "setup"]
          /\ UNCHANGED <<jobs, observed>>
       \/ \E e \in Messages :
          /\ jobs' = [jobs EXCEPT ![j] = mark_job_failed(@, e)]
          /\ scraper' = [scraper EXCEPT ![j].pc = "done"]
          /\ observed' = Broadcast(observed, j, "job_failed", 0)
    /\ UNCHANGED <<leads, error_counts>>
    /\ UNCHANGED notJob

\* search_and_scrape() without a job id: _create_scrape_job.
CreateScrapeJob(j) ==
    /\ scraper[j].pc = "none"
    /\ NextJobId(j)
    /\ jobs' = [jobs EXCEPT ![j] = NewJob("running")]
    /\ scraper' = [scraper EXCEPT ![j].pc = "setup", ![j].origin = "direct"]
    /\ UNCHANGED <<leads, error_counts, observed>>
    /\ UNCHANGED notJob

\* _get_page_with_retry and _perform_search_with_retry succeed, and
\* _scrape_listings_enhanced finds the listing links.
SearchSucceeds(j, max_listings) ==
    /\ scraper[j].pc = "setup"
    /\ \E n \in 0..(max_listings - SumTodo(Jobs)) :
          scraper' = [scraper EXCEPT
              ![j].pc = "loop",
              ![j].rate_limiter = record_success(PassGate(@)),
              ![j].todo = n]
    /\ UNCHANGED <<jobs, leads, error_counts, observed>>
    /\ UNCHANGED notJob

\* Getting the page raises after its retries, or the search does (and the
\* limiter records the error).
SearchFails(j) ==
    /\ scraper[j].pc = "setup"
    /\ \E e \in Messages, searching \in BOOLEAN :
          /\ scraper' = [scraper EXCEPT
                ![j].pc = "except",
                ![j].error = e,
                ![j].rate_limiter =
                    IF searching THEN record_error(PassGate(@), TRUE, now) ELSE @]
          /\ observed' = [observed EXCEPT !.setup_error[j] = e]
    /\ UNCHANGED <<jobs, leads, error_counts>>
    /\ UNCHANGED notJob

\* search_and_scrape's except clause: lines 112-116.
ScrapeRaises(j) ==
    /\ scraper[j].pc = "except"
    /\ jobs' = [jobs EXCEPT ![j] = update_job_status(@, "failed", 0, scraper[j].error)]
    /\ scraper' = [scraper EXCEPT
          ![j].pc = IF scraper[j].origin = "api" THEN "task_except" ELSE "done"]
    /\ observed' = [observed EXCEPT !.outcome[j] = "raised"]
    /\ UNCHANGED <<leads, error_counts>>
    /\ UNCHANGED notJob

\* run_scrape_job's except clause after search_and_scrape raised.
TaskFails(j) ==
    /\ scraper[j].pc = "task_except"
    /\ jobs' = [jobs EXCEPT ![j] = mark_job_failed(@, scraper[j].error)]
    /\ scraper' = [scraper EXCEPT ![j].pc = "done"]
    /\ observed' = Broadcast(observed, j, "job_failed", 0)
    /\ UNCHANGED <<leads, error_counts>>
    /\ UNCHANGED notJob

\* RateLimiter.wait_after_batch(batch_size), on the scraper's limiter: the
\* pause is taken when the limiter's request count is a multiple of the
\* batch size.
wait_after_batch(s, batch_size) ==
    IF s.rate_limiter.total_requests % batch_size = 0
    THEN [s EXCEPT !.paused_at = s.rate_limiter.total_requests,
                   !.batch_pause = 30 + (s.rate_limiter.consecutive_errors * 10)]
    ELSE s

\* The end of an iteration that did not raise: the batch delay and the
\* check of the consecutive failures, lines 227-234.
EndOfIteration(s) ==
    LET s1 == IF (s.i + 1) % BatchSize = 0 THEN wait_after_batch(s, BatchSize) ELSE s
        s2 == [s1 EXCEPT !.admissions = 0, !.attempts = 0]
    IN  IF s2.consecutive_failures >= MaxConsecutiveFailures
        THEN [s2 EXCEPT !.pc = "finish"]
        ELSE [s2 EXCEPT !.pc = "loop", !.i = @ + 1]

\* The inner except clause, lines 236-246: the error is recorded and the
\* loop continues with the next listing.
ListingRaised(s) ==
    [s EXCEPT !.rate_limiter = record_error(@, FALSE, now),
              !.consecutive_failures = @ + 1,
              !.admissions = 0,
              !.attempts = 0,
              !.pc = "loop",
              !.i = @ + 1]

\* The head of the loop over listing_links[:max_results], up to the gate.
\* enter_cooldown() returns None, and awaiting None raises TypeError.
NextListing(j) ==
    /\ scraper[j].pc = "loop"
    /\ IF scraper[j].i >= scraper[j].todo
       THEN /\ scraper' = [scraper EXCEPT ![j].pc = "finish"]
            /\ UNCHANGED error_counts
       ELSE IF ~is_healthy(scraper[j].rate_limiter)
       THEN /\ scraper' = [scraper EXCEPT ![j] =
                   ListingRaised([@ EXCEPT !.rate_limiter = enter_cooldown(@, now)])]
            /\ error_counts' = handle_error(error_counts, "TypeError")
       ELSE /\ scraper' = [scraper EXCEPT ![j].pc = "fetch",
                                          ![j].rate_limiter = PassGate(@),
                                          ![j].admissions = 1]
            /\ UNCHANGED error_counts
    /\ UNCHANGED <<jobs, leads, observed>>
    /\ UNCHANGED notJob

\* _scrape_single_listing: an attempt of scrape() raises and retry_async
\* sleeps and tries again.
ListingAttemptFails(j) ==
    /\ scraper[j].pc = "fetch"
    /\ scraper[j].attempts + 1 < Attempts(ListingRetries)
    /\ scraper' = [scraper EXCEPT ![j].attempts = @ + 1]
    /\ UNCHANGED <<jobs, leads, error_counts, observed>>
    /\ UNCHANGED notJob

\* _scrape_single_listing yields nothing, its last attempt having raised:
\* the failure is counted.
ListingYieldsNothing(j) ==
    /\ scraper[j].pc = "fetch"
    /\ scraper[j].attempts + 1 = Attempts(ListingRetries)
    /\ scraper' = [scraper EXCEPT ![j] =
          EndOfIteration([@ EXCEPT !.consecutive_failures = @ + 1])]
    /\ observed' = [observed EXCEPT !.fetched[j] = TRUE, !.dropped[j] = TRUE]
    /\ UNCHANGED <<jobs, leads, error_counts>>
    /\ UNCHANGED notJob

\* A statement of the loop body raises.
ListingRaises(j) ==
    /\ scraper[j].pc = "fetch"
    /\ scraper' = [scraper EXCEPT ![j] = ListingRaised(@)]
    /\ error_counts' = handle_error(error_counts, "Exception")
    /\ observed' = [observed EXCEPT !.fetched[j] = TRUE]
    /\ UNCHANGED <<jobs, leads>>
    /\ UNCHANGED notJob

\* _scrape_single_listing yields a record and _save_to_database looks for a
\* lead with its place_id.
ListingYieldsRecord(j) ==
    /\ scraper[j].pc = "fetch"
    /\ \E place_id \in PlaceIds :
          IF ExistingLead(leads, place_id)
          THEN /\ scraper' = [scraper EXCEPT ![j] =
                      EndOfIteration([@ EXCEPT !.rate_limiter = record_success(@)])]
               /\ observed' = [observed EXCEPT !.fetched[j] = TRUE,
                                               !.save = "duplicate"]
          ELSE /\ scraper' = [scraper EXCEPT ![j].pc = "commit",
                                             ![j].attempts = @ + 1,
                                             ![j].place_id = place_id]
               /\ observed' = [observed EXCEPT !.fetched[j] = TRUE]
    /\ UNCHANGED <<jobs, leads, error_counts>>
    /\ UNCHANGED notJob

\* session.commit() of the new lead, and the rest of the iteration.
CommitLead(j) ==
    /\ scraper[j].pc = "commit"
    /\ IF UniqueViolation(leads, scraper[j].place_id)
       THEN /\ scraper' = [scraper EXCEPT ![j] =
                   EndOfIteration([@ EXCEPT !.rate_limiter = record_success(@),
                                            !.place_id = None])]
            /\ observed' = [observed EXCEPT !.save = "conflict"]
            /\ UNCHANGED <<jobs, leads>>
       ELSE /\ leads' = InsertLead(leads, scraper[j].place_id, j)
            /\ jobs' = [jobs EXCEPT ![j] =
                   update_job_progress(@, scraper[j].results + 1)]
            /\ scraper' = [scraper EXCEPT ![j] =
                   EndOfIteration([@ EXCEPT !.results = @ + 1,
                                            !.consecutive_failures = 0,
                                            !.rate_limiter = record_success(@),
                                            !.place_id = None])]
            /\ observed' = [observed EXCEPT !.save = "saved"]
    /\ UNCHANGED error_counts
    /\ UNCHANGED notJob

\* The loop is over: search_and_scrape marks the job completed and returns,
\* and run_scrape_job broadcasts job_completed.
ScrapeReturns(j) ==
    /\ scraper[j].pc = "finish"
    /\ jobs' = [jobs EXCEPT ![j] =
          update_job_status(@, "completed", scraper[j].results, None)]
    /\ scraper' = [scraper EXCEPT ![j].pc = "done"]
    /\ observed' =
          LET obs == [observed EXCEPT !.outcome[j] = "returned"]
          IN  IF scraper[j].origin = "api"
              THEN Broadcast(obs, j, "job_completed", scraper[j].results)
              ELSE obs
    /\ UNCHANGED <<leads, error_counts>>
    /\ UNCHANGED notJob

JobStep(j, max_listings) ==
    \/ StartScrape(j)
    \/ RunScrapeJob(j)
    \/ CreateScrapeJob(j)
    \/ SearchSucceeds(j, max_listings)
    \/ SearchFails(j)
    \/ ScrapeRaises(j)
    \/ TaskFails(j)
    \/ NextListing(j)
    \/ ListingAttemptFails(j)
    \/ ListingYieldsNothing(j)
    \/ ListingRaises(j)
    \/ ListingYieldsRecord(j)
    \/ CommitLead(j)
    \/ ScrapeReturns(j)

\* One job, run alone.
NextJob == JobStep(1, MaxListings)

\* One job, run alone, with enough listings for a batch.
NextBatch == JobStep(1, MaxBatchListings)

\* The loop is over and the database raises inside _update_job_status:
\* its except clause (lines 439-440) logs the error, so that
\* search_and_scrape returns the results all the same and run_scrape_job
\* broadcasts job_completed.
ScrapeReturnsUnrecorded(j) ==
    /\ scraper[j].pc = "finish"
    /\ scraper' = [scraper EXCEPT ![j].pc = "done"]
    /\ observed' =
          LET obs == [observed EXCEPT !.outcome[j] = "returned"]
          IN  IF scraper[j].origin = "api"
              THEN Broadcast(obs, j, "job_completed", scraper[j].results)
              ELSE obs
    /\ UNCHANGED <<jobs, leads, error_counts>>
    /\ UNCHANGED notJob

\* One job, run alone, with a database that may raise at the last update.
NextDbError == NextJob \/ ScrapeReturnsUnrecorded(1)

\* The task that runs the job is cancelled while it is suspended in an await
\* of the page automation: CancelledError is raised there.  It is not an
\* Exception, so neither search_and_scrape's nor run_scrape_job's except
\* clause runs; run_scrape_job's finally clause closes the scraper.
Cancel(j) ==
    /\ scraper[j].pc \in {"initialize", "setup", "fetch"}
    /\ scraper' = [scraper EXCEPT ![j].pc = "cancelled"]
    /\ UNCHANGED <<jobs, leads, error_counts, observed>>
    /\ UNCHANGED notJob

\* One job, run alone, that may be cancelled.
NextCancel == NextJob \/ Cancel(1)

\* The jobs run concurrently.
NextJobs == \E j \in Jobs : JobStep(j, MaxShared)

(***************************************************************************)
(* SessionManager                                                          *)
(*                                                                         *)
(* A session (a browser context) is identified by its number in the order  *)
(* of creation; 0 stands for None.  browser_manager.launch_browser()       *)
(* returns a new context or raises.  The calls are made one after another. *)
(***************************************************************************)
MaxRequestsPerSession == 2    \* max_requests_per_session
SessionLifetime == 2          \* session_lifetime, in ticks
MaxSessions == 3              \* launch_browser() succeeds at most this often

NoSession == 0

SessionIds == 1..MaxSessions

\* SessionManager.__init__
NewSessionManager ==
    [ current_session        |-> NoSession,
      session_created_at     |-> NoTime,
      session_request_count  |-> 0,
      browser_manager        |-> FALSE,
      total_sessions_created |-> 0 ]

NewSessionObs ==
    [ closed   |-> {},                          \* sessions close() was called on
      handed   |-> [id \in SessionIds |-> 0],   \* times get_session returned each
      op       |-> "init",                      \* the last call and how it ended
      returned |-> NoSession,                   \* what get_session returned
      age      |-> 0 ]                          \* age of that session at the return

\* A rotation test that lets one request too many through.
ShouldRotateLate(m, t) ==
    \/ m.current_session = NoSession \/ m.session_created_at = NoTime
    \/ m.session_request_count > MaxRequestsPerSession
    \/ t - m.session_created_at > SessionLifetime

\* _should_rotate_session() at time t
ShouldRotate(m, t) ==
    \/ m.current_session = NoSession \/ m.session_created_at = NoTime
    \/ m.session_request_count >= MaxRequestsPerSession
    \/ t - m.session_created_at > SessionLifetime

\* create_new_session(), lines 35-40: the old session is closed
CloseOld(m, closed) ==
    IF m.current_session # NoSession THEN closed \cup {m.current_session} ELSE closed

\* create_new_session(), lines 42-46, when launch_browser() returned
Launched(m, t) ==
    [m EXCEPT !.current_session = m.total_sessions_created + 1,
              !.session_created_at = t,
              !.session_request_count = 0,
              !.total_sessions_created = @ + 1]

\* The outcomes of launch_browser()
LaunchOutcomes == IF session_manager.total_sessions_created < MaxSessions
                  THEN BOOLEAN ELSE {FALSE}

SessionConstructed ==
    /\ session_manager = NewSessionManager
    /\ s_obs = NewSessionObs

\* initialize(browser_manager)
InitializeSession ==
    /\ ~session_manager.browser_manager
    /\ \E launch_ok \in LaunchOutcomes :
          LET m == [session_manager EXCEPT !.browser_manager = TRUE]
          IN  /\ session_manager' = IF launch_ok THEN Launched(m, now) ELSE m
              /\ s_obs' = [s_obs EXCEPT
                    !.closed = CloseOld(m, @),
                    !.op = IF launch_ok THEN "initialize" ELSE "initialize_raised"]
    /\ UNCHANGED <<now, rate_limiter, w_pc, w_wake, admitted>>
    /\ UNCHANGED notSession

\* get_session()
GetSession ==
    /\ session_manager.browser_manager
    /\ IF ShouldRotate(session_manager, now)
       THEN \E launch_ok \in LaunchOutcomes :
              IF launch_ok
              THEN LET m == Launched(session_manager, now)
                   IN  /\ session_manager' = [m EXCEPT !.session_request_count = @ + 1]
                       /\ s_obs' = [s_obs EXCEPT
                             !.closed = CloseOld(session_manager, @),
                             !.handed[m.current_session] = @ + 1,
                             !.op = "get",
                             !.returned = m.current_session,
                             !.age = now - m.session_created_at]
              ELSE /\ UNCHANGED session_manager
                   /\ s_obs' = [s_obs EXCEPT
                         !.closed = CloseOld(session_manager, @),
                         !.op = "get_raised",
                         !.returned = NoSession]
       ELSE /\ session_manager' = [session_manager EXCEPT !.session_request_count = @ + 1]
            /\ s_obs' = [s_obs EXCEPT
                  !.handed[session_manager.current_session] = @ + 1,
                  !.op = "get",
                  !.returned = session_manager.current_session,
                  !.age = now - session_manager.session_created_at]
    /\ UNCHANGED <<now, rate_limiter, w_pc, w_wake, admitted>>
    /\ UNCHANGED notSession

\* force_rotation()
ForceRotation ==
    /\ session_manager.browser_manager
    /\ \E launch_ok \in LaunchOutcomes :
          /\ session_manager' = IF launch_ok THEN Launched(session_manager, now)
                                             ELSE session_manager
          /\ s_obs' = [s_obs EXCEPT
                !.closed = CloseOld(session_manager, @),
                !.op = IF launch_ok THEN "force_rotation" ELSE "force_rotation_raised"]
    /\ UNCHANGED <<now, rate_limiter, w_pc, w_wake, admitted>>
    /\ UNCHANGED notSession

\* close()
CloseSession ==
    /\ s_obs' = [s_obs EXCEPT !.closed = CloseOld(session_manager, @), !.op = "close"]
    /\ UNCHANGED session_manager
    /\ UNCHANGED <<now, rate_limiter, w_pc, w_wake, admitted>>
    /\ UNCHANGED notSession

NextSession ==
    \/ Tick
    \/ InitializeSession
    \/ GetSession
    \/ ForceRotation
    \/ CloseSession

(***************************************************************************)
(* BusinessLead and AdvancedDeduplicator                                   *)
(*                                                                         *)
(* A lead is [id, f, loc, data_quality_score]: f gives the value of each   *)
(* string column (None, the empty string or a text), loc stands for the    *)
(* pair latitude/longitude (a position in metres along a line, or NoLoc),  *)
(* and id is the primary key, 0 for a lead that is not persisted.          *)
(***************************************************************************)
\* The columns calculate_quality_score looks at, in its order.
ScoredFields ==
    << "business_name", "full_address", "city", "state", "pin_code",
       "phone", "website", "category", "email", "place_id" >>

\* fields_to_merge of _merge_leads
FieldsToMerge ==
    << "phone", "website", "email", "category",
       "social_facebook", "social_instagram", "social_twitter",
       "social_linkedin", "social_youtube" >>

LeadFields == Range(ScoredFields) \cup Range(FieldsToMerge)

\* A test that takes the empty string for a value.
NotNone(v) == v # None

\* Python's truth value of an Optional[str]
Truthy(v) == v # None /\ v # ""

\* int(x) of the double (filled_fields / total_fields) * 100.  For
\* total_fields = 10 and filled_fields in 0..10 the double-precision product
\* lies within 1e-13 of 10 * filled_fields and never below it, so the
\* truncation is the integer quotient.
TruncatedPercent(filled_fields, total_fields) ==
    (filled_fields * 100) \div total_fields

\* calculate_quality_score(): the score of a lead with the columns f
calculate_quality_score(f) ==
    LET filled_fields ==
            Cardinality({i \in DOMAIN ScoredFields : Truthy(f[ScoredFields[i]])})
        total_fields == Len(ScoredFields)
    IN  TruncatedPercent(filled_fields, total_fields)

\* ---- calculate_quality_score on one lead
ScoreValues == {None, "", "v"}

ScoreInputs ==
    {[fld \in LeadFields |->
         IF \E i \in DOMAIN ScoredFields : ScoredFields[i] = fld
         THEN g[CHOOSE i \in DOMAIN ScoredFields : ScoredFields[i] = fld]
         ELSE None] : g \in [DOMAIN ScoredFields -> ScoreValues]}

ScoreConstructed == qs = [pc |-> "new", f |-> [fld \in LeadFields |-> None], score |-> 0]

ScoreCalled == \E f \in ScoreInputs : qs = [pc |-> "new", f |-> f, score |-> 0]

CalculateQualityScore ==
    /\ qs.pc = "new"
    /\ qs' = [qs EXCEPT !.pc = "scored", !.score = calculate_quality_score(qs.f)]
    /\ UNCHANGED <<fd, mg, dd, ph>>
    /\ UNCHANGED notDedup

NextScore == CalculateQualityScore

\* ---- normalize_phone
\* A str is the sequence of its characters; NoPhone is None.
MaxAffix == 2             \* characters around the digits of a number

NoPhone == << "None" >>

PhoneChars == {"0", "1", "9", "+", "-"}

\* re.sub(r'[^\d+]', '', phone) keeps these
IsDigitOrPlus(c) == c \in {"0", "1", "2", "3", "4", "5", "6", "7", "8", "9", "+"}

\* str.lstrip('0')
RECURSIVE LStripZeros(_)
LStripZeros(q) ==
    IF q # << >> /\ q[1] = "0" THEN LStripZeros(Tail(q)) ELSE q

\* normalize_phone(phone)
normalize_phone(phone) ==
    IF phone = NoPhone \/ phone = << >>
    THEN NoPhone
    ELSE LET normalized == LStripZeros(SelectSeq(phone, IsDigitOrPlus))
         IN  IF normalized # << >> /\ normalized[1] = "+"
             THEN normalized
             ELSE IF Len(normalized) = 10
             THEN << "+", "9", "1" >> \o normalized
             ELSE IF Len(normalized) = 11 /\ normalized[1] = "9" /\ normalized[2] = "1"
             THEN << "+" >> \o normalized
             ELSE normalized

\* The strings of at most k characters of PhoneChars.
Affixes(k) == UNION {[1..n -> PhoneChars] : n \in 0..k}

\* The numbers tried: an optional country code, up to MaxAffix characters,
\* an optional run of nine digits, up to MaxAffix characters.
PhoneInputs ==
    {NoPhone} \cup
    {cc \o a \o body \o b :
        cc \in {<< >>, << "+", "9", "1" >>, << "9", "1" >>},
        a \in Affixes(MaxAffix),
        body \in {<< >>, << "8", "7", "6", "5", "4", "3", "2", "1", "0" >>},
        b \in Affixes(MaxAffix)}

PhoneConstructed == ph = [pc |-> "new", phone |-> NoPhone, once |-> NoPhone, twice |-> NoPhone]

PhoneCalled ==
    \E p \in PhoneInputs :
        ph = [pc |-> "new", phone |-> p, once |-> NoPhone, twice |-> NoPhone]

\* normalize_phone(phone)
NormalizePhone ==
    /\ ph.pc = "new"
    /\ ph' = [ph EXCEPT !.pc = "once", !.once = normalize_phone(ph.phone)]
    /\ UNCHANGED <<fd, mg, dd, qs>>
    /\ UNCHANGED notDedup

\* normalize_phone of the value it returned
NormalizePhoneAgain ==
    /\ ph.pc = "once"
    /\ ph' = [ph EXCEPT !.pc = "twice", !.twice = normalize_phone(ph.once)]
    /\ UNCHANGED <<fd, mg, dd, qs>>
    /\ UNCHANGED notDedup

NextPhone ==
    \/ NormalizePhone
    \/ NormalizePhoneAgain

\* ---- find_duplicates
MaxCorpus == 2            \* leads persisted when find_duplicates is called
MaxSaved == 1             \* leads persisted when a record is saved

NameThreshold == 85       \* name_similarity_threshold
AddressThreshold == 80    \* address_similarity_threshold
ProximityThreshold == 50  \* proximity_threshold_meters

NoLoc == 0 - 1

\* A lead with the given columns; the other columns are None.
MkLead(id, place_id, phone, city, pin_code, business_name, full_address, loc) ==
    [ id  |-> id,
      f   |-> [fld \in LeadFields |->
                 CASE fld = "place_id"      -> place_id
                   [] fld = "phone"         -> phone
                   [] fld = "city"          -> city
                   [] fld = "pin_code"      -> pin_code
                   [] fld = "business_name" -> business_name
                   [] fld = "full_address"  -> full_address
                   [] OTHER                 -> None],
      loc |-> loc,
      data_quality_score |-> 0 ]

\* The characters of the phone numbers that occur in the leads.
Chars(phone) ==
    CASE phone = None -> NoPhone
      [] phone = ""   -> << >>
      [] phone = "0"  -> << "0" >>
      [] phone = "5"  -> << "5" >>
      [] phone = "05" -> << "0", "5" >>
      [] phone = "6"  -> << "6" >>

\* str.lower().strip() of the names and addresses that occur in the leads.
LowerStrip(v) ==
    CASE v = "ACME" -> "acme"
      [] v = "Main St " -> "main st"
      [] OTHER -> v

\* fuzz.token_set_ratio of two normalized texts, as far as the texts that
\* occur in the leads are concerned.
TokenSetRatio(a, b) ==
    IF a = b THEN 100
    ELSE IF {a, b} = {"acme", "acne"} THEN 75
    ELSE IF {a, b} = {"acme", "acmes"} THEN 89     \* 88.9 to the nearest unit
    ELSE 0

\* calculate_name_similarity and calculate_address_similarity
calculate_similarity(a, b) ==
    IF ~Truthy(a) \/ ~Truthy(b) THEN 0
    ELSE TokenSetRatio(LowerStrip(a), LowerStrip(b))

\* calculate_distance: None (NoLoc) when a coordinate is missing
calculate_distance(loc1, loc2) ==
    IF loc1 = NoLoc \/ loc2 = NoLoc THEN NoLoc
    ELSE IF loc1 < loc2 THEN loc2 - loc1 ELSE loc1 - loc2

\* "distance and distance <= self.proximity_threshold": None and 0.0 are false
IsClose(distance) ==
    distance # NoLoc /\ distance # 0 /\ distance <= ProximityThreshold

Match(candidate, match_type, confidence) ==
    [id |-> candidate.id, match_type |-> match_type, confidence |-> confidence]

\* Level 1, lines 109-120: the first lead with the same place_id
ExactMatches(lead, corpus) ==
    LET Same(c) == c.f["place_id"] = lead.f["place_id"] /\ c.id # lead.id
        found == SelectSeq(corpus, Same)
    IN  IF Truthy(lead.f["place_id"]) /\ found # << >>
        THEN << Match(found[1], "exact_place_id", 100) >>
        ELSE << >>

\* Level 2, lines 123-136: the leads with the same normalized phone
PhoneMatches(lead, corpus) ==
    LET normalized_phone == normalize_phone(Chars(lead.f["phone"]))
        Same(c) == /\ c.f["phone"] # None
                   /\ c.id # lead.id
                   /\ normalize_phone(Chars(c.f["phone"])) = normalized_phone
        found == SelectSeq(corpus, Same)
    IN  IF Truthy(lead.f["phone"]) /\ normalized_phone # NoPhone
                                   /\ normalized_phone # << >>
        THEN [k \in DOMAIN found |-> Match(found[k], "phone_number", 95)]
        ELSE << >>

\* Lines 156-199: the verdict on one candidate; confidence 0 means no duplicate
FuzzyMatch(lead, candidate) ==
    LET name_sim == calculate_similarity(lead.f["business_name"],
                                         candidate.f["business_name"])
        addr_sim == calculate_similarity(lead.f["full_address"],
                                         candidate.f["full_address"])
        distance == calculate_distance(lead.loc, candidate.loc)
        with_address == addr_sim >= AddressThreshold
        confidence1 == IF with_address THEN (name_sim + addr_sim) \div 2 ELSE name_sim
        type1 == IF with_address THEN "fuzzy_name_address" ELSE "fuzzy_name"
    IN  IF name_sim >= NameThreshold
        THEN IF IsClose(distance)
             THEN Match(candidate,
                        IF with_address THEN "fuzzy_name_address_proximity"
                                        ELSE "fuzzy_name_proximity",
                        Min(confidence1 + 10, 100))
             ELSE Match(candidate, type1, confidence1)
        ELSE IF IsClose(distance) /\ name_sim >= 70
        THEN Match(candidate, "proximity_similar_name", 85)
        ELSE Match(candidate, "", 0)

\* Level 3, lines 140-208: the candidates of the same city or pin code
FuzzyMatches(lead, corpus) ==
    LET InArea(c) ==
            /\ c.id # lead.id
            /\ IF Truthy(lead.f["city"]) THEN c.f["city"] = lead.f["city"]
               ELSE c.f["pin_code"] = lead.f["pin_code"]
        IsDuplicate(c) == InArea(c) /\ FuzzyMatch(lead, c).match_type # ""
        found == SelectSeq(corpus, IsDuplicate)
    IN  IF Truthy(lead.f["city"]) \/ Truthy(lead.f["pin_code"])
        THEN [k \in DOMAIN found |-> FuzzyMatch(lead, found[k])]
        ELSE << >>

\* A search that goes on after an exact match.
find_duplicates_all_levels(lead, corpus) ==
    ExactMatches(lead, corpus) \o PhoneMatches(lead, corpus) \o FuzzyMatches(lead, corpus)

\* find_duplicates(lead) against the persisted leads
find_duplicates(lead, corpus) ==
    IF ExactMatches(lead, corpus) # << >>
    THEN ExactMatches(lead, corpus)
    ELSE PhoneMatches(lead, corpus) \o FuzzyMatches(lead, corpus)

\* The leads find_duplicates is called with: not persisted (id 0).
NewLeads ==
    {MkLead(0, place_id, phone, geo[1], geo[2], "acme", where[1], where[2]) :
        place_id \in {None, "p1"},
        phone \in {None, "5", "0"},
        geo \in {<<"c1", "z1">>, <<None, "z1">>, <<None, None>>},
        where \in {<<"main st", 30>>, <<"main st", NoLoc>>, <<None, 0>>}}

\* What varies among the persisted leads: place_id, phone, city, business_name.
PersistedKinds ==
    {None, "p1"} \X {None, "05"} \X {"c1", "c2"} \X {"ACME", "acne", "acmes", "zed"}

\* The persisted lead of a kind: id is its place in the table.
Persisted(id, kind) ==
    MkLead(id, kind[1], kind[2], kind[3], "z1", kind[4], "Main St ", 0)

\* place_id is unique among the persisted leads (NULLs apart).
UniquePlaceIds(corpus) ==
    \A a, b \in DOMAIN corpus :
        (a # b /\ corpus[a].f["place_id"] # None) =>
            corpus[a].f["place_id"] # corpus[b].f["place_id"]

\* The tables of n leads.
Tables(n) ==
    {corpus \in {[id \in 1..n |-> Persisted(id, kinds[id])] :
                    kinds \in [1..n -> PersistedKinds]} :
        UniquePlaceIds(corpus)}

FindConstructed == fd = [pc |-> "new", lead |-> MkLead(0, None, None, None, None, None, None, NoLoc),
                         corpus |-> << >>, result |-> << >>]

FindCalled ==
    \E n \in 0..MaxCorpus : \E corpus \in Tables(n) :
    \E lead \in NewLeads \cup Range(corpus) :
        fd = [pc |-> "new", lead |-> lead, corpus |-> corpus, result |-> << >>]

FindDuplicates ==
    /\ fd.pc = "new"
    /\ fd' = [fd EXCEPT !.pc = "found", !.result = find_duplicates(fd.lead, fd.corpus)]
    /\ UNCHANGED <<mg, dd, ph, qs>>
    /\ UNCHANGED notDedup

NextFind == FindDuplicates

\* ---- _merge_leads
\* _merge_leads(primary, duplicate, session) as far as primary is concerned:
\* lines 283-292.  (session.delete(duplicate) is the caller's part here.)
merge_leads(primary, duplicate) ==
    LET merged == [fld \in LeadFields |->
                     IF /\ fld \in Range(FieldsToMerge)
                        /\ ~Truthy(primary.f[fld])
                        /\ Truthy(duplicate.f[fld])
                     THEN duplicate.f[fld]
                     ELSE primary.f[fld]]
    IN  [primary EXCEPT !.f = merged,
                        !.data_quality_score = calculate_quality_score(merged)]

MergeValues == {None, "", "v"}

\* A lead whose columns a and b are set, with its score as it was saved.
LeadWith(id, a, va, b, vb) ==
    LET f == [fld \in LeadFields |-> IF fld = a THEN va ELSE IF fld = b THEN vb ELSE None]
    IN  [id |-> id, f |-> f, loc |-> NoLoc,
         data_quality_score |-> calculate_quality_score(f)]

MergeConstructed ==
    mg = [pc |-> "new", primary |-> LeadWith(1, "phone", None, "phone", None),
          duplicate |-> LeadWith(2, "phone", None, "phone", None),
          merged |-> LeadWith(1, "phone", None, "phone", None)]

MergeCalled ==
    \E a, b \in Range(FieldsToMerge) :
    \E pa, pb \in MergeValues, da, db \in {None, "", "w"} :
        /\ a # b
        /\ mg = [pc |-> "new", primary |-> LeadWith(1, a, pa, b, pb),
                 duplicate |-> LeadWith(2, a, da, b, db),
                 merged |-> LeadWith(1, a, pa, b, pb)]

MergeLeads ==
    /\ mg.pc = "new"
    /\ mg' = [mg EXCEPT !.pc = "merged", !.merged = merge_leads(mg.primary, mg.duplicate)]
    /\ UNCHANGED <<fd, dd, ph, qs>>
    /\ UNCHANGED notDedup

NextMerge == MergeLeads

\* ---- deduplicate_database
(***************************************************************************)
(* The pass loads all the leads into its session (objs), and every         *)
(* find_duplicates call reads the table through a session of its own: it   *)
(* sees the committed rows (corpus), not the changes the pass has pending. *)
(* The leads find_duplicates returns belong to a session that is closed    *)
(* when it returns; whether the object-relational mapper lets the pass use *)
(* them (detached_ok) or raises at their first use is an input.            *)
(***************************************************************************)
MaxLeads == 2             \* leads in the table when the pass runs

Strategies == {"mark", "merge", "delete"}

\* A pass that forgets its dry_run argument.
MutatesAlways(dry_run) == TRUE

\* "if not dry_run": lines 253 and 264
Mutates(dry_run) == ~dry_run

NewStats == [total_processed |-> 0, duplicates_found |-> 0, actions_taken |-> 0, errors |-> 0]

\* What varies among the leads of the table: phone, business_name, website.
PassKinds == {None, "5"} \X {"acme", "zed"} \X {None, "", "w"}

\* The lead of a kind, with its score as it was saved.
PassLead(id, kind) ==
    LET f == [MkLead(id, None, kind[1], "c1", None, kind[2], None, NoLoc).f
                 EXCEPT !["website"] = kind[3]]
    IN  [id |-> id, f |-> f, loc |-> NoLoc,
         data_quality_score |-> calculate_quality_score(f)]

PassTables(n) ==
    {[id \in 1..n |-> PassLead(id, kinds[id])] : kinds \in [1..n -> PassKinds]}

NewPass(corpus) ==
    [ pc          |-> "idle",
      corpus      |-> corpus,       \* the committed rows of business_leads
      before      |-> corpus,       \* the rows when the pass began
      objs        |-> << >>,        \* all_leads: the objects of the pass's session
      deleted     |-> {},           \* ids passed to session.delete()
      i           |-> 0,            \* the loop index (from 1)
      strategy    |-> "mark",
      dry_run     |-> FALSE,
      detached_ok |-> TRUE,
      stats       |-> NewStats ]

\* Lines 253-262 for one duplicate: r is [obj, deleted, actions_taken].
Resolve(r, dup_lead, strategy, dry_run) ==
    IF ~Mutates(dry_run) THEN r
    ELSE IF strategy = "delete"
    THEN IF r.obj.data_quality_score >= dup_lead.data_quality_score
         THEN [r EXCEPT !.deleted = @ \cup {dup_lead.id}, !.actions_taken = @ + 1]
         ELSE r
    ELSE IF strategy = "merge"
    THEN [r EXCEPT !.obj = merge_leads(@, dup_lead),
                   !.deleted = @ \cup {dup_lead.id},
                   !.actions_taken = @ + 1]
    ELSE r

\* "for dup_lead, match_info in duplicates": lines 250-262
RECURSIVE ResolveAll(_, _, _, _, _)
ResolveAll(r, duplicates, corpus, strategy, dry_run) ==
    IF duplicates = << >> THEN r
    ELSE ResolveAll(Resolve(r, corpus[Head(duplicates).id], strategy, dry_run),
                    Tail(duplicates), corpus, strategy, dry_run)

\* session.commit(): the pending changes reach the table
Committed(objs, deleted) ==
    LET Kept(lead) == lead.id \notin deleted
    IN  SelectSeq(objs, Kept)

PassConstructed == dd = NewPass(<< >>)

PassCalled == \E n \in 0..MaxLeads : \E corpus \in PassTables(n) : dd = NewPass(corpus)

\* deduplicate_database(strategy, dry_run) up to the loop: lines 226-238
StartPass ==
    /\ dd.pc = "idle"
    /\ \E strategy \in Strategies, dry_run \in BOOLEAN, detached_ok \in BOOLEAN :
          dd' = [dd EXCEPT !.pc = "loop",
                           !.objs = dd.corpus,
                           !.i = 1,
                           !.strategy = strategy,
                           !.dry_run = dry_run,
                           !.detached_ok = detached_ok,
                           !.stats.total_processed = Len(dd.corpus)]
    /\ UNCHANGED <<fd, mg, ph, qs>>
    /\ UNCHANGED notDedup

\* One iteration of the loop over all_leads: lines 240-262.  When the use of
\* a returned lead raises, the except clause of line 267 ends the pass and
\* nothing is committed.
VisitLead ==
    /\ dd.pc = "loop"
    /\ dd.i <= Len(dd.objs)
    /\ LET lead == dd.objs[dd.i]
           duplicates == find_duplicates(lead, dd.corpus)
           r == ResolveAll([obj |-> lead, deleted |-> dd.deleted,
                            actions_taken |-> dd.stats.actions_taken],
                           duplicates, dd.corpus, dd.strategy, dd.dry_run)
       IN  IF duplicates = << >>
           THEN dd' = [dd EXCEPT !.i = @ + 1]
           ELSE IF ~dd.detached_ok
           THEN dd' = [dd EXCEPT !.pc = "done",
                                 !.stats.duplicates_found = @ + Len(duplicates),
                                 !.stats.errors = @ + 1]
           ELSE dd' = [dd EXCEPT !.i = @ + 1,
                                 !.objs[dd.i] = r.obj,
                                 !.deleted = r.deleted,
                                 !.stats.duplicates_found = @ + Len(duplicates),
                                 !.stats.actions_taken = r.actions_taken]
    /\ UNCHANGED <<fd, mg, ph, qs>>
    /\ UNCHANGED notDedup

\* After the loop: lines 264-272.
FinishPass ==
    /\ dd.pc = "loop"
    /\ dd.i > Len(dd.objs)
    /\ dd' = [dd EXCEPT !.pc = "done",
                        !.corpus = IF Mutates(dd.dry_run)
                                   THEN Committed(dd.objs, dd.deleted)
                                   ELSE @]
    /\ UNCHANGED <<fd, mg, ph, qs>>
    /\ UNCHANGED notDedup

NextDedup ==
    \/ StartPass
    \/ VisitLead
    \/ FinishPass

(***************************************************************************)
(* One RateLimiter shared by concurrent callers                            *)
(*                                                                         *)
(* Each caller is a coroutine on one event loop: the code of               *)
(* wait_if_needed() between two awaits runs without interruption, and at   *)
(* every asyncio.sleep() another caller may run.                           *)
(***************************************************************************)
NCallers == 2             \* coroutines that use the limiter

Callers == 1..NCallers

NewCaller == [pc |-> "idle", wake |-> 0]

SharedConstructed == callers = [c \in Callers |-> NewCaller]

\* The limiter's fields and the caller's position after a step of the call.
ApplyShared(c, o) ==
    /\ rate_limiter' = o.rl
    /\ callers' = [callers EXCEPT ![c] = [pc |-> o.pc, wake |-> o.wake]]
    /\ admitted' = admitted \o o.adm

\* Caller c enters wait_if_needed().
SharedCall(c) ==
    /\ callers[c].pc = "idle"
    /\ \E d \in BaseDelays : ApplyShared(c, StepCooldown(rate_limiter, now, d))
    /\ UNCHANGED <<now, w_pc, w_wake>>
    /\ UNCHANGED notShared

\* The asyncio.sleep() of caller c returns and its call goes on.
SharedWake(c) ==
    /\ callers[c].pc # "idle"
    /\ now >= callers[c].wake
    /\ \E d \in BaseDelays : ApplyShared(c, Resume(callers[c].pc, rate_limiter, now, d))
    /\ UNCHANGED <<now, w_pc, w_wake>>
    /\ UNCHANGED notShared

NextShared ==
    \/ Tick
    \/ \E c \in Callers : SharedCall(c)
    \/ \E c \in Callers : SharedWake(c)

(***************************************************************************)
(* ErrorRecovery                                                           *)
(*                                                                         *)
(* An error's classification is its exception class.  What a strategy does *)
(* when it is run is an input: it reports success, reports failure or      *)
(* raises.                                                                 *)
(***************************************************************************)
MaxStrategies == 3        \* strategies registered before handle_error is called
MaxCalls == 2             \* handle_error calls between two reset_stats calls

ErrorTypes == {"Exception", "OSError", "ConnectionError", "ValueError"}

\* The base class of an exception class.
BaseOf(t) ==
    CASE t = "ConnectionError" -> "OSError"
      [] t = "OSError"         -> "Exception"
      [] t = "ValueError"      -> "Exception"
      [] t = "Exception"       -> "Exception"

\* isinstance(error, registered_type)
RECURSIVE IsInstance(_, _)
IsInstance(error_type, registered_type) ==
    \/ error_type = registered_type
    \/ error_type # "Exception" /\ IsInstance(BaseOf(error_type), registered_type)

StrategyOutcomes == {"True", "False", "raise"}

\* ErrorRecovery.__init__
NewErrorRecovery ==
    [ pc                  |-> "idle",
      recovery_strategies |-> << >>,      \* the dict's keys, in insertion order
      error_counts        |-> [t \in ErrorTypes |-> 0],
      error               |-> "Exception",
      outcomes            |-> [t \in ErrorTypes |-> "True"],
      ran                 |-> << >>,      \* the strategies run by the call
      result              |-> FALSE,
      calls               |-> 0 ]         \* handle_error calls since reset_stats

\* register_strategy: a key that is already in the dict keeps its place.
register_strategy(strategies, error_type) ==
    IF error_type \in Range(strategies) THEN strategies
    ELSE Append(strategies, error_type)

\* "Try parent class strategies": lines 158-171, from the k-th item on.
RECURSIVE ParentStrategies(_, _, _, _, _)
ParentStrategies(strategies, error_type, outcomes, k, ran) ==
    IF k > Len(strategies) THEN [ran |-> ran, result |-> FALSE]
    ELSE IF IsInstance(error_type, strategies[k])
    THEN IF outcomes[strategies[k]] = "True"
         THEN [ran |-> Append(ran, strategies[k]), result |-> TRUE]
         ELSE ParentStrategies(strategies, error_type, outcomes, k + 1,
                               Append(ran, strategies[k]))
    ELSE ParentStrategies(strategies, error_type, outcomes, k + 1, ran)

\* handle_error: the strategies it runs and what it returns (lines 143-171).
recover(strategies, error_type, outcomes) ==
    IF error_type \in Range(strategies)
    THEN [ran |-> <<error_type>>, result |-> outcomes[error_type] = "True"]
    ELSE ParentStrategies(strategies, error_type, outcomes, 1, << >>)

\* What the registered strategies do when they are run by one call.
StrategyRuns(strategies) ==
    {outcomes \in [ErrorTypes -> StrategyOutcomes] :
        \A t \in ErrorTypes \ Range(strategies) : outcomes[t] = "True"}

RecoveryConstructed == er = NewErrorRecovery

RegisterStrategy ==
    /\ er.pc = "idle"
    /\ \E error_type \in ErrorTypes :
          /\ Len(register_strategy(er.recovery_strategies, error_type)) <= MaxStrategies
          /\ er' = [er EXCEPT !.recovery_strategies = register_strategy(@, error_type)]
    /\ UNCHANGED notRecovery

HandleError ==
    /\ er.calls < MaxCalls
    /\ \E error_type \in ErrorTypes, outcomes \in StrategyRuns(er.recovery_strategies) :
          LET r == recover(er.recovery_strategies, error_type, outcomes)
          IN  er' = [er EXCEPT !.pc = "handled",
                               !.error_counts[error_type] = @ + 1,
                               !.error = error_type,
                               !.outcomes = outcomes,
                               !.ran = r.ran,
                               !.result = r.result,
                               !.calls = @ + 1]
    /\ UNCHANGED notRecovery

\* reset_stats: self.error_counts.clear()
reset_stats(recovery) ==
    [recovery EXCEPT !.error_counts = [t \in ErrorTypes |-> 0]]

ResetStats ==
    /\ er.pc = "handled"
    /\ er' = [reset_stats(er) EXCEPT !.calls = 0]
    /\ UNCHANGED notRecovery

NextRecovery == RegisterStrategy \/ HandleError \/ ResetStats

(***************************************************************************)
(* The save step of the crawl loop                                         *)
(*                                                                         *)
(* One record that extract_business_data has returned is saved into a      *)
(* table of leads, and appended to the results of the crawl when the save  *)
(* succeeds.  Whether the commit goes through is an input.                 *)
(***************************************************************************)
\* important_fields of DataExtractor._calculate_quality_score
ImportantFields ==
    << "business_name", "full_address", "city", "state", "pin_code",
       "phone", "website", "category", "place_id" >>

\* DataExtractor._calculate_quality_score(data).  int((filled / 9) * 100) is
\* the integer quotient for every filled in 0..9.
extractor_quality_score(f) ==
    LET filled ==
            Cardinality({i \in DOMAIN ImportantFields : Truthy(f[ImportantFields[i]])})
        total == Len(ImportantFields)
    IN  TruncatedPercent(filled, total)

\* extract_business_data, line 53: the record carries the extractor's score.
Extracted(lead) ==
    [lead EXCEPT !.data_quality_score = extractor_quality_score(lead.f)]

\* The records extract_business_data returns: the name is never missing.
ExtractedRecords == {Extracted(lead) : lead \in NewLeads}

CommitOutcomes == {"ok", "raise"}

\* _save_to_database(business_data): the table afterwards and what it returns
save_to_database(table, business_data, commit) ==
    IF /\ Truthy(business_data.f["place_id"])
       /\ \E k \in DOMAIN table : table[k].f["place_id"] = business_data.f["place_id"]
    THEN [table |-> table, saved |-> FALSE]
    ELSE IF commit = "raise"
    THEN [table |-> table, saved |-> FALSE]
    ELSE [table |-> Append(table,
                      [business_data EXCEPT
                          !.id = Len(table) + 1,
                          !.data_quality_score = calculate_quality_score(business_data.f)]),
          saved |-> TRUE]

NewSave(table, business_data) ==
    [ pc            |-> "extracted",
      business_data |-> business_data,
      before        |-> table,           \* the table when the record arrives
      table         |-> table,
      saved         |-> FALSE,
      results       |-> << >>,
      leads_scraped |-> 0 ]              \* what _update_job_progress has written

SaveConstructed ==
    sv = NewSave(<< >>, MkLead(0, None, None, None, None, None, None, NoLoc))

SaveCalled ==
    \E n \in 0..MaxSaved : \E table \in Tables(n) :
    \E business_data \in ExtractedRecords :
        sv = NewSave(table, business_data)

\* Lines 211-221 of the loop, for a record that was extracted.
SaveRecord ==
    /\ sv.pc = "extracted"
    /\ \E commit \in CommitOutcomes :
          LET out == save_to_database(sv.table, sv.business_data, commit)
              results == IF out.saved THEN Append(sv.results, sv.business_data)
                         ELSE sv.results
          IN  sv' = [sv EXCEPT !.pc = "saved",
                               !.table = out.table,
                               !.saved = out.saved,
                               !.results = results,
                               !.leads_scraped = IF out.saved THEN Len(results) ELSE @]
    /\ UNCHANGED notSave

NextSave == SaveRecord

(***************************************************************************)
(* Specifications                                                          *)
(***************************************************************************)
\* The shared limiter's callers and the error recovery as constructed.
MoreConstructed == SharedConstructed /\ RecoveryConstructed /\ SaveConstructed

\* Every component as constructed.
RestConstructed ==
    /\ SessionConstructed
    /\ FindConstructed /\ MergeConstructed /\ PassConstructed
    /\ PhoneConstructed /\ ScoreConstructed

InitRL == RLConstructed /\ RetryConstructed /\ ProxyConstructed /\ JobsConstructed
             /\ RestConstructed /\ MoreConstructed
SpecRL == InitRL /\ [][NextRL]_vars

InitRetry == RLConstructed /\ RetryCalled /\ ProxyConstructed /\ JobsConstructed
                /\ RestConstructed /\ MoreConstructed
SpecRetry == InitRetry /\ [][NextRetry]_vars

InitProxy == RLConstructed /\ RetryConstructed /\ ProxyConstructed /\ JobsConstructed
                /\ RestConstructed /\ MoreConstructed
SpecProxy == InitProxy /\ [][NextProxy]_vars

InitJob == RLConstructed /\ RetryConstructed /\ ProxyConstructed /\ JobsConstructed
              /\ RestConstructed /\ MoreConstructed
SpecJob == InitJob /\ [][NextJob]_vars
SpecJobs == InitJob /\ [][NextJobs]_vars
SpecCancel == InitJob /\ [][NextCancel]_vars
SpecBatch == InitJob /\ [][NextBatch]_vars
SpecDbError == InitJob /\ [][NextDbError]_vars

\* The event loop runs a task whenever it can take a step, and every call
\* the task awaits returns or raises.
FairSpecJob == SpecJob /\ WF_vars(NextJob)
FairSpecDbError == SpecDbError /\ WF_vars(NextDbError)

\* The components of the first part as constructed.
CrawlConstructed ==
    /\ RLConstructed /\ RetryConstructed /\ ProxyConstructed /\ JobsConstructed
    /\ MoreConstructed

InitSession == CrawlConstructed /\ RestConstructed
SpecSession == InitSession /\ [][NextSession]_vars

InitFind ==
    /\ CrawlConstructed /\ SessionConstructed
    /\ FindCalled /\ MergeConstructed /\ PassConstructed
    /\ PhoneConstructed /\ ScoreConstructed
SpecFind == InitFind /\ [][NextFind]_vars

InitMerge ==
    /\ CrawlConstructed /\ SessionConstructed
    /\ FindConstructed /\ MergeCalled /\ PassConstructed
    /\ PhoneConstructed /\ ScoreConstructed
SpecMerge == InitMerge /\ [][NextMerge]_vars

InitDedup ==
    /\ CrawlConstructed /\ SessionConstructed
    /\ FindConstructed /\ MergeConstructed /\ PassCalled
    /\ PhoneConstructed /\ ScoreConstructed
SpecDedup == InitDedup /\ [][NextDedup]_vars

InitPhone ==
    /\ CrawlConstructed /\ SessionConstructed
    /\ FindConstructed /\ MergeConstructed /\ PassConstructed
    /\ PhoneCalled /\ ScoreConstructed
SpecPhone == InitPhone /\ [][NextPhone]_vars

InitScore ==
    /\ CrawlConstructed /\ SessionConstructed
    /\ FindConstructed /\ MergeConstructed /\ PassConstructed
    /\ PhoneConstructed /\ ScoreCalled
SpecScore == InitScore /\ [][NextScore]_vars

InitShared == CrawlConstructed /\ RestConstructed
SpecShared == InitShared /\ [][NextShared]_vars

InitRecovery == CrawlConstructed /\ RestConstructed
SpecRecovery == InitRecovery /\ [][NextRecovery]_vars

InitSave ==
    /\ RLConstructed /\ RetryConstructed /\ ProxyConstructed /\ JobsConstructed
    /\ SharedConstructed /\ RecoveryConstructed /\ RestConstructed
    /\ SaveCalled
SpecSave == InitSave /\ [][NextSave]_vars

(***************************************************************************)
(* Claims                                                                  *)
(***************************************************************************)
\* The timestamps admitted in the one-hour window that ends at t.
InHourWindow(t) == {i \in DOMAIN admitted : t - Hour < admitted[i] /\ admitted[i] <= t}

\* C1: no one-hour sliding window holds more admitted-request timestamps than
\* max_requests_per_hour; hence a request admitted when the cap is already
\* used up is recorded at least one hour after the request that is
\* max_requests_per_hour places before it.
C1_HourlyCap ==
    /\ \A t \in 0..MaxTime : Cardinality(InHourWindow(t)) <= MaxPerHour
    /\ \A i \in DOMAIN admitted :
          i > MaxPerHour => admitted[i] >= admitted[i - MaxPerHour] + Hour

\* A third request has been admitted under the hourly cap, after a wait for
\* the window to free up.
C1_Witness ==
    /\ Len(admitted) > MaxPerHour
    /\ admitted[MaxPerHour + 1] = admitted[1] + Hour

\* The status changes the claimed life cycle allows; "absent" is the job
\* before its row exists.
StatusEdges ==
    { <<"absent", "pending">>, <<"absent", "running">>, <<"pending", "running">>,
      <<"running", "completed">>, <<"running", "failed">> }

\* C2: every change of a job's status follows one edge of
\* pending -> running -> {completed | failed}: a pending job is set to
\* running before it reaches a terminal status, and a terminal status never
\* changes again.
C2_StatusEdges ==
    [][\A j \in Jobs :
          jobs'[j].status # jobs[j].status =>
              <<jobs[j].status, jobs'[j].status>> \in StatusEdges]_vars

\* The number of persisted leads among the rows S.
RECURSIVE RowCount(_)
RowCount(S) ==
    IF S = {} THEN 0
    ELSE LET row == CHOOSE x \in S : TRUE
         IN  leads[row] + RowCount(S \ {row})

\* C3: no two persisted leads share a non-null place_id, and a record whose
\* place_id is already persisted (by the same job or by a concurrent job
\* that won the race) is not persisted and not counted: the job's count of
\* results and its leads_scraped equal the number of leads it persisted.
C3_UniquePlaceId ==
    /\ \A p \in PlaceIds \ {None} :
          RowCount({row \in LeadRows : row.place_id = p}) <= 1
    /\ \A j \in Jobs :
          /\ scraper[j].results = RowCount({row \in LeadRows : row.job = j})
          /\ jobs[j].leads_scraped = scraper[j].results

\* A job found no lead with its record's place_id, another job persisted one
\* before the commit, and the commit was refused.
C3_Witness ==
    /\ observed.save = "conflict"
    /\ RowCount({row \in LeadRows : row.place_id = "p1"}) = 1

\* C4: when a listing of a job fails at extraction the record is dropped and
\* the job ends completed with leads_scraped equal to the number of persisted
\* listings and with error_count at least 1.
C4_DroppedCounted ==
    \A j \in Jobs :
        (scraper[j].pc = "done" /\ observed.outcome[j] = "returned"
                                /\ observed.dropped[j]) =>
            /\ jobs[j].status = "completed"
            /\ jobs[j].leads_scraped = scraper[j].results
            /\ jobs[j].error_count >= 1

\* C5: once 5 listings in a row have failed, by yielding nothing or by
\* raising, no further listing is fetched, and the job that returns is
\* completed with the count reached so far.
C5_StopsAfterFive ==
    \A j \in Jobs :
        /\ scraper[j].pc = "fetch" =>
              scraper[j].consecutive_failures < MaxConsecutiveFailures
        /\ (scraper[j].pc = "done" /\ observed.outcome[j] = "returned") =>
              /\ jobs[j].status = "completed"
              /\ jobs[j].leads_scraped = scraper[j].results

C7_RetryBounds ==
    LET n == Len(retry.outcomes)
        finished == retry.pc \in {"returned", "raised"}
    IN  /\ n <= retry.max_retries + 1
        /\ finished => n >= 1
        /\ \A i \in 1..(n - 1) : retry.outcomes[i] # "ok"
        /\ retry.pc = "returned" =>
              /\ retry.outcomes[n] = "ok"
              /\ retry.result = <<"value", n - 1>>
        /\ (finished /\ \A i \in 1..n : retry.outcomes[i] = "error") =>
              /\ n = retry.max_retries + 1
              /\ retry.pc = "raised"
              /\ retry.raised = <<"Exception", n - 1>>

\* Every invocation failed, the retries are used up and the last error is raised.
C7_Witness ==
    /\ retry.max_retries >= 1
    /\ retry.pc = "raised"
    /\ Len(retry.outcomes) = retry.max_retries + 1
    /\ \A i \in DOMAIN retry.outcomes : retry.outcomes[i] = "error"

\* C8: when an invocation fails with a FatalError, retry_async raises that
\* error at once: the invocation is the last one, and neither the callback
\* nor a retry sleep follows it.
C8_FatalNotRetried ==
    \A i \in DOMAIN retry.outcomes :
        retry.outcomes[i] = "fatal" =>
            /\ i = Len(retry.outcomes)
            /\ retry.pc = "raised"
            /\ retry.raised = <<"FatalError", i - 1>>
            /\ retry.log[Len(retry.log)] = <<"call", i - 1>>

\* A fatal error on an invocation that still had retries left, with a callback.
C8_Witness ==
    \E i \in DOMAIN retry.outcomes :
        /\ retry.outcomes[i] = "fatal"
        /\ i <= retry.max_retries
        /\ retry.has_on_error

\* C9: get_next_proxy never fails: it returns the "none available" sentinel
\* exactly when the healthy set is empty and otherwise a proxy of the healthy
\* set.
C9_NextNeverFails ==
    /\ p_result.kind # "IndexError"
    /\ p_result.kind = "none" => p_result.healthy = {}
    /\ p_result.kind = "proxy" => p_result.proxy \in p_result.healthy

\* C10: a proxy that mark_proxy_failed has recorded as failed is not in the
\* healthy set, whatever refresh and next calls follow.
C10_FailedStaysOut ==
    pool.failed_proxies \cap Range(pool.working_proxies) = {}


\* C11: every session get_session returns has, at the return, been handed out
\* at most max_requests_per_session times and is not older than the session
\* lifetime; a call that finds either limit reached closes the old session
\* and returns a new one; and the current session is replaced only inside
\* get_session or force_rotation.
C11_SessionLimits ==
    /\ [](s_obs.op = "get" =>
            /\ s_obs.returned # NoSession
            /\ s_obs.handed[s_obs.returned] <= MaxRequestsPerSession
            /\ s_obs.age <= SessionLifetime)
    /\ [][LET old == session_manager.current_session
          IN  /\ (old # NoSession /\ session_manager'.current_session # old) =>
                    s_obs'.op \in {"get", "force_rotation"}
              /\ (/\ s_obs'.op = "get"
                  /\ s_obs'.handed # s_obs.handed
                  /\ old # NoSession
                  /\ \/ session_manager.session_request_count >= MaxRequestsPerSession
                     \/ now - session_manager.session_created_at > SessionLifetime) =>
                    /\ s_obs'.returned # old
                    /\ old \in s_obs'.closed]_vars

\* A session created by a rotation has been handed out as often as allowed.
C11_Witness ==
    /\ s_obs.op = "get"
    /\ s_obs.returned > 1
    /\ s_obs.handed[s_obs.returned] = MaxRequestsPerSession
    /\ s_obs.closed # {}

\* C12: get_session never returns a session the manager itself has closed,
\* neither after close() nor after a rotation whose launch failed.
C12_NeverClosed ==
    s_obs.op = "get" => s_obs.returned \notin s_obs.closed

\* C13: when the lead has a place_id that a persisted lead shares,
\* find_duplicates returns exactly one match, of type exact_place_id with
\* confidence 100, whatever else would match by phone or by fuzzy comparison.
C13_ExactIdentity ==
    fd.pc = "found" =>
        \A k \in DOMAIN fd.corpus :
            (/\ fd.lead.f["place_id"] # None
             /\ fd.corpus[k].f["place_id"] = fd.lead.f["place_id"]
             /\ fd.corpus[k].id # fd.lead.id) =>
                fd.result = << [id |-> fd.corpus[k].id,
                                match_type |-> "exact_place_id",
                                confidence |-> 100] >>

\* An exact match was returned although another persisted lead matches the
\* phone and the name.
C13_Witness ==
    /\ fd.pc = "found"
    /\ Len(fd.result) = 1
    /\ fd.result[1].match_type = "exact_place_id"
    /\ \E k \in DOMAIN fd.corpus :
          /\ fd.corpus[k].id # fd.result[1].id
          /\ fd.corpus[k].f["phone"] = "05" /\ fd.lead.f["phone"] = "5"
          /\ fd.corpus[k].f["business_name"] = "ACME"
          /\ fd.corpus[k].f["city"] = fd.lead.f["city"]

\* C14: when the phone level yields a match, the result holds only phone
\* matches, each with confidence 95, and no persisted lead appears twice.
C14_PhoneTierOnly ==
    (fd.pc = "found" /\ \E k \in DOMAIN fd.result : fd.result[k].match_type = "phone_number") =>
        /\ \A k \in DOMAIN fd.result :
              /\ fd.result[k].match_type = "phone_number"
              /\ fd.result[k].confidence = 95
        /\ \A a, b \in DOMAIN fd.result : a # b => fd.result[a].id # fd.result[b].id

\* C15: merging never overwrites a merged field that was not null in the
\* primary (the empty string is not null), and a null field takes the
\* duplicate's value.
C15_MergeKeepsNonNull ==
    mg.pc = "merged" =>
        \A fld \in Range(FieldsToMerge) :
            IF mg.primary.f[fld] # None
            THEN mg.merged.f[fld] = mg.primary.f[fld]
            ELSE mg.merged.f[fld] = mg.duplicate.f[fld]

\* The pairs (lead, duplicate) a pass detects in the table it began with.
DetectedPairs ==
    UNION {{<<a, m.id>> : m \in Range(find_duplicates(dd.before[a], dd.before))} :
              a \in DOMAIN dd.before}

\* The lead of this id is in the table.
InTable(id) == \E k \in DOMAIN dd.corpus : dd.corpus[k].id = id

\* The score a lead had when the pass began.
ScoreBefore(id) == dd.before[id].data_quality_score

RECURSIVE MatchesUpTo(_)
MatchesUpTo(n) ==
    IF n = 0 THEN 0
    ELSE MatchesUpTo(n - 1) + Len(find_duplicates(dd.before[n], dd.before))

C19_NormalizeIdempotent ==
    /\ ph.pc = "twice" => ph.twice = ph.once
    /\ normalize_phone(<< "9", "8", "7", "6", "5", "4", "3", "2", "1", "0" >>)
         = normalize_phone(<< "+", "9", "1", "9", "8", "7", "6", "5", "4", "3", "2", "1", "0" >>)

\* The ten fields the score is said to count.
ClaimedFields ==
    { "business_name", "full_address", "city", "state", "pin_code",
      "phone", "website", "category", "email", "place_id" }

\* The number of populated fields among them: neither null nor empty.
Filled == Cardinality({fld \in ClaimedFields : qs.f[fld] \notin {None, ""}})

\* C20: the quality score is round(100 x filled / 10), filled being the
\* number of populated fields among the ten; it lies in 0..100, is 100 when
\* all ten are populated and 0 when none is.
C20_QualityScore ==
    qs.pc = "scored" =>
        /\ qs.score = (2 * 100 * Filled + 10) \div 20
        /\ qs.score \in 0..100
        /\ Filled = 10 => qs.score = 100
        /\ Filled = 0 => qs.score = 0

\* A lead with three populated fields and an empty website has been scored.
C20_Witness ==
    /\ qs.pc = "scored"
    /\ Filled = 3
    /\ qs.f["website"] = ""
    /\ qs.score = 30

\* The timestamps admitted in the one-minute window that ends at t.
InMinuteWindow(t) ==
    {i \in DOMAIN admitted : t - Minute < admitted[i] /\ admitted[i] <= t}

\* C21: with the calls made one after another, no one-minute sliding window
\* holds more admitted-request timestamps than max_requests_per_minute; a call
\* that finds the per-minute count at the cap sleeps the fixed interval, and
\* its own timestamp is recorded only after that sleep, when the timestamps it
\* counted have left the window.
C21_MinuteCap ==
    /\ [](\A t \in 0..MaxTime : Cardinality(InMinuteWindow(t)) <= MaxPerMinute)
    /\ [](w_pc = "minute_sleep" =>
            /\ w_wake - Minute \in 0..now
            /\ RecentRequests(rate_limiter.requests_history, w_wake - (2 * Minute))
                  >= MaxPerMinute
            /\ \A i \in DOMAIN admitted : admitted[i] <= w_wake - Minute)
    /\ [][(w_pc = "minute_sleep" /\ admitted' # admitted) => now >= w_wake]_vars

\* A call found the per-minute count at the cap, slept the fixed interval and
\* is about to go on.
C21_Witness ==
    /\ w_pc = "minute_sleep"
    /\ now = w_wake
    /\ Len(admitted) >= MaxPerMinute

\* A cooldown is active from the moment it is entered until its hold period
\* has elapsed.
CooldownActive ==
    rate_limiter.cooldown_until # NoTime /\ now < rate_limiter.cooldown_until

\* C22: in every reachable state is_healthy() is false exactly when
\* consecutive_errors >= 5 or a cooldown is active (entered, hold period not
\* yet elapsed), whatever calls were made and however much time has passed;
\* consecutive_errors grows by exactly 1 on each record_error and is 0 after
\* each record_success.
C22_HealthIff ==
    /\ [](~is_healthy(rate_limiter) <=>
            (rate_limiter.consecutive_errors >= UnhealthyThreshold \/ CooldownActive))
    /\ [][rate_limiter'.consecutive_errors # rate_limiter.consecutive_errors =>
            \/ rate_limiter'.consecutive_errors = rate_limiter.consecutive_errors + 1
            \/ rate_limiter'.consecutive_errors = 0]_vars

\* C29: no request is admitted while a cooldown is in force.  A call of
\* wait_if_needed() that starts in a cooldown is held at the gate until the
\* cooldown's end time, so the step that records its timestamp happens no
\* earlier than that end; and whenever a call returns, the limiter is no
\* longer in cooldown.
C29_CooldownHolds ==
    /\ []((w_pc # "idle" /\ rate_limiter.is_in_cooldown) =>
            /\ w_pc = "cooldown_sleep"
            /\ w_wake = rate_limiter.cooldown_until)
    /\ [][admitted' # admitted =>
            /\ rate_limiter.is_in_cooldown => now >= rate_limiter.cooldown_until
            /\ ~rate_limiter'.is_in_cooldown
            /\ w_pc' = "idle"]_vars
    /\ [][(w_pc' = "idle" /\ (w_pc # "idle" \/ admitted' # admitted)) =>
            ~rate_limiter'.is_in_cooldown]_vars

\* A call that started in a cooldown entered after an earlier request has been
\* held at the gate until the cooldown's end.
C29_Witness ==
    /\ w_pc = "cooldown_sleep"
    /\ rate_limiter.is_in_cooldown
    /\ admitted # << >>
    /\ now = rate_limiter.cooldown_until

\* C30: every record_error call that leaves consecutive_errors >= 3, whoever
\* makes it, leaves the limiter in cooldown with a hold period of
\* cooldown_after_error from that moment; record_success afterwards resets the
\* counter to 0 and does not end the cooldown.
C30_AutoCooldown ==
    /\ [][rate_limiter'.consecutive_errors = rate_limiter.consecutive_errors + 1 =>
            (rate_limiter'.consecutive_errors >= CooldownThreshold =>
                /\ rate_limiter'.is_in_cooldown
                /\ rate_limiter'.cooldown_until = now + CooldownAfterError)]_vars
    /\ [][(rate_limiter.consecutive_errors > 0 /\ rate_limiter'.consecutive_errors = 0) =>
            /\ rate_limiter'.is_in_cooldown = rate_limiter.is_in_cooldown
            /\ rate_limiter'.cooldown_until = rate_limiter.cooldown_until]_vars

\* C28: when one RateLimiter is shared by concurrent callers whose
\* wait_if_needed() calls interleave at its suspension points, the hourly and
\* per-minute caps bound the timestamps admitted across all callers in every
\* sliding window.
C28_SharedCaps ==
    \A t \in 0..MaxTime :
        /\ Cardinality(InHourWindow(t)) <= MaxPerHour
        /\ Cardinality(InMinuteWindow(t)) <= MaxPerMinute

\* The strategies registered for a supertype of the error's class, by position.
Applicable ==
    {k \in DOMAIN er.recovery_strategies :
        IsInstance(er.error, er.recovery_strategies[k])}

\* The strategy the call is to select: the one registered for the error's own
\* class, otherwise the first applicable one in registration order.
Selected ==
    IF er.error \in Range(er.recovery_strategies) THEN er.error
    ELSE er.recovery_strategies[CHOOSE k \in Applicable : \A m \in Applicable : k <= m]

\* C24: handle_error runs exactly one strategy whenever one applies, the
\* selected one, and returns its outcome (a strategy that raises counts as
\* not recovered); it runs no second strategy when the selected one reports
\* failure or raises; with no applicable strategy it runs none and returns
\* False.
C24_OneStrategy ==
    er.pc = "handled" =>
        IF Applicable = {}
        THEN er.ran = << >> /\ ~er.result
        ELSE /\ er.ran = <<Selected>>
             /\ er.result = (er.outcomes[Selected] = "True")

C23_CountersMonotone ==
    [][\A j \in Jobs :
          /\ jobs'[j].leads_scraped >= jobs[j].leads_scraped
          /\ jobs'[j].error_count >= jobs[j].error_count]_vars

\* One job was marked failed by both of its failure updates, and another job
\* was completed after two progress updates.
C23_Witness ==
    \E j, k \in Jobs :
        /\ jobs[j].status = "failed"
        /\ jobs[j].error_count = 2
        /\ jobs[k].status = "completed"
        /\ jobs[k].leads_scraped = 2

\* C25: a job whose run was cancelled ends with status failed and a
\* cancellation reason in last_error; it is never left in pending or running.
\* (The loop is to see the cancellation at the next iteration boundary, start
\* no further listing and let the record in flight finish.)
C25_CancelledJobFails ==
    \A j \in Jobs :
        scraper[j].pc = "cancelled" =>
            /\ jobs[j].status = "failed"
            /\ jobs[j].last_error # None

\* The positions of the terminal messages among the messages about job j.
TerminalEvents(j) ==
    {k \in DOMAIN observed.events[j] :
        observed.events[j][k].type \in {"job_completed", "job_failed"}}

\* C26: the messages about a job started through the API, singly or in bulk,
\* are job_started first, then a job_progress message for the records
\* persisted, then exactly one terminal message (job_completed with the final
\* count, or job_failed), and nothing after it.
C26_EventOrder ==
    \A j \in Jobs :
        (jobs[j].status # "absent" /\ scraper[j].origin = "api") =>
            LET ev == observed.events[j]
            IN  /\ ev # << >>
                /\ ev[1].type = "job_started"
                /\ \A k \in TerminalEvents(j) : k = Len(ev)
                /\ scraper[j].pc = "done" =>
                      /\ TerminalEvents(j) # {}
                      /\ ev[Len(ev)].type = "job_completed" =>
                            ev[Len(ev)].count = jobs[j].leads_scraped
                /\ jobs[j].leads_scraped > 0 =>
                      \E k \in DOMAIN ev : ev[k].type = "job_progress"

\* ---- The fuzzy tier of find_duplicates
\* The search reached the fuzzy tier: no exact match ended it, and the lead
\* has a city or a pin code to select candidates with.
FuzzyTierReached ==
    /\ fd.pc = "found"
    /\ ExactMatches(fd.lead, fd.corpus) = << >>
    /\ (Truthy(fd.lead.f["city"]) \/ Truthy(fd.lead.f["pin_code"]))

\* The candidates the fuzzy tier compares the lead with.
FuzzyCandidate(lead, c) ==
    /\ c.id # lead.id
    /\ IF Truthy(lead.f["city"]) THEN c.f["city"] = lead.f["city"]
       ELSE c.f["pin_code"] = lead.f["pin_code"]

NameSim(lead, c) == calculate_similarity(lead.f["business_name"], c.f["business_name"])

AddrSim(lead, c) == calculate_similarity(lead.f["full_address"], c.f["full_address"])

\* Both leads have coordinates and are at most 50 m apart, 0 m included.
Within50m(lead, c) ==
    /\ calculate_distance(lead.loc, c.loc) # NoLoc
    /\ calculate_distance(lead.loc, c.loc) <= ProximityThreshold

\* The fuzzy-tier entries of the result about candidate c.
FuzzyEntries(c) ==
    {m \in DOMAIN fd.result :
        /\ fd.result[m].id = c.id
        /\ fd.result[m].match_type \notin {"exact_place_id", "phone_number"}}

\* The confidence of a candidate whose name is similar enough.
ExpectedConfidence(lead, c) ==
    LET base == IF AddrSim(lead, c) >= AddressThreshold
                THEN (NameSim(lead, c) + AddrSim(lead, c)) \div 2
                ELSE NameSim(lead, c)
    IN  IF Within50m(lead, c) THEN Min(base + 10, 100) ELSE base

\* C34: in the fuzzy tier a candidate whose name similarity is at least 85
\* is reported with a confidence within 0..100 that is the name similarity,
\* or its average with the address similarity when that is at least 80,
\* plus 10 capped at 100 when both leads have coordinates at most 50 m
\* apart, a distance of exactly 0 included.
C34_FuzzyConfidence ==
    FuzzyTierReached =>
        \A k \in DOMAIN fd.corpus :
            (/\ FuzzyCandidate(fd.lead, fd.corpus[k])
             /\ NameSim(fd.lead, fd.corpus[k]) >= NameThreshold) =>
                /\ FuzzyEntries(fd.corpus[k]) # {}
                /\ \A m \in FuzzyEntries(fd.corpus[k]) :
                      /\ fd.result[m].confidence \in 0..100
                      /\ fd.result[m].confidence =
                            ExpectedConfidence(fd.lead, fd.corpus[k])

\* C35: in the fuzzy tier a candidate whose name similarity is below 85 is
\* reported, with confidence exactly 85, when the similarity is at least 70
\* and both leads have coordinates at most 50 m apart (any distance from
\* 0 m to 50 m); otherwise it is not reported.
C35_ProximityTier ==
    FuzzyTierReached =>
        \A k \in DOMAIN fd.corpus :
            (/\ FuzzyCandidate(fd.lead, fd.corpus[k])
             /\ NameSim(fd.lead, fd.corpus[k]) < NameThreshold) =>
                IF /\ NameSim(fd.lead, fd.corpus[k]) >= 70
                   /\ Within50m(fd.lead, fd.corpus[k])
                THEN /\ FuzzyEntries(fd.corpus[k]) # {}
                     /\ \A m \in FuzzyEntries(fd.corpus[k]) :
                           fd.result[m].confidence = 85
                ELSE FuzzyEntries(fd.corpus[k]) = {}

\* ---- The callback of retry_async
\* The log without what is logged about a callback that raised.
WithoutCallbackErrors(log) ==
    LET Kept(e) == e[1] # "callback_error" IN SelectSeq(log, Kept)

\* The call with the same arguments and the same outcomes of func, and a
\* callback that never raises.
RECURSIVE Replay(_, _, _)
Replay(r, outcomes, k) ==
    IF k > Len(outcomes) \/ r.pc # "loop" THEN r
    ELSE Replay(RetryIteration(r, outcomes[k], "ok"), outcomes, k + 1)

\* That call, as far as the call under observation has gone.
Replayed ==
    LET r == Replay(NewRetry(retry.max_retries, retry.base_delay,
                             retry.exponential_backoff, retry.has_on_error),
                    retry.outcomes, 1)
    IN  IF r.pc = "loop" /\ retry.pc # "loop" THEN RetryExhausted(r) ELSE r

\* How often the callback was called for attempt k.
OnErrorCalls(k) ==
    Cardinality({p \in DOMAIN retry.log : retry.log[p] = <<"on_error", k>>})

\* C37: the callback of retry_async is called exactly once for each failed
\* attempt that is going to be retried, after the attempt and before the
\* sleep of that retry, and never for the last attempt; a callback that
\* raises changes neither the attempts, nor the delays, nor the result or
\* the error of the call.
C37_CallbackOncePerRetry ==
    LET log == WithoutCallbackErrors(retry.log)
    IN  /\ \A k \in 0..retry.max_retries :
              OnErrorCalls(k) =
                  IF /\ retry.has_on_error
                     /\ k < Len(retry.outcomes)
                     /\ retry.outcomes[k + 1] = "error"
                     /\ k < retry.max_retries
                  THEN 1 ELSE 0
        /\ \A p \in DOMAIN log :
              log[p][1] = "on_error" =>
                  /\ p > 1 /\ log[p - 1] = <<"call", log[p][2]>>
                  /\ p < Len(log)
                  /\ log[p + 1] = <<"sleep", RetryDelay([retry EXCEPT !.attempt = log[p][2]])>>
        /\ [retry EXCEPT !.log = log] = Replayed

\* The callback raised before a retry, and the call has ended since.
C37_Witness ==
    /\ retry.pc \in {"returned", "raised"}
    /\ \E p \in DOMAIN retry.log : retry.log[p][1] = "callback_error"
    /\ Len(retry.outcomes) >= 2

\* ---- The statistics of ErrorRecovery
\* get_error_stats: total_errors
TotalErrors ==
    LET RECURSIVE Sum(_)
        Sum(S) == IF S = {} THEN 0
                  ELSE LET t == CHOOSE x \in S : TRUE
                       IN  er.error_counts[t] + Sum(S \ {t})
    IN  Sum(ErrorTypes)

\* C38: handle_error always returns, and it returns "not recovered" when no
\* strategy applies to the error and when a strategy it runs raises; every
\* call adds exactly 1 to the count of the error's class, so that the counts
\* add up to the number of handle_error calls since the last reset_stats,
\* which clears the counts and leaves the registered strategies as they are.
C38_CountsAndOutcome ==
    /\ TotalErrors = er.calls
    /\ er.pc = "handled" =>
          /\ er.result \in BOOLEAN
          /\ Applicable = {} => ~er.result
          /\ (\E k \in DOMAIN er.ran : er.outcomes[er.ran[k]] = "raise") => ~er.result

\* ---- The save step of the crawl loop
\* The persisted leads whose normalized phone is the record's, when no
\* persisted lead has its place_id.
Tier2Duplicates ==
    IF ExactMatches(sv.business_data, sv.before) # << >> THEN << >>
    ELSE PhoneMatches(sv.business_data, sv.before)

\* C36: during a crawl, a record whose normalized phone is that of a
\* persisted lead is treated as a record whose place_id is that of a
\* persisted lead: it is not persisted and not counted in the job's
\* scraped count.
C36_PhoneDuplicateNotSaved ==
    (sv.pc = "saved" /\ Tier2Duplicates # << >>) =>
        /\ sv.table = sv.before
        /\ sv.results = << >>
        /\ sv.leads_scraped = 0

\* C39: the score carried by a record in the list the crawl returns is the
\* score persisted for that record.
C39_SameScore ==
    (sv.pc = "saved" /\ sv.saved) =>
        sv.results[Len(sv.results)].data_quality_score =
            sv.table[Len(sv.table)].data_quality_score

\* ---- The crawl loop and the limiter
\* C32: when the limiter is unhealthy at the start of a listing's iteration,
\* the loop forces a cooldown and goes on to process that listing in the
\* same iteration: the listing is neither skipped nor counted as a failure.
C32_UnhealthyStillProcessed ==
    [][\A j \in Jobs :
          (/\ scraper[j].pc = "loop"
           /\ scraper[j].i < scraper[j].todo
           /\ ~is_healthy(scraper[j].rate_limiter)
           /\ scraper'[j] # scraper[j]) =>
              /\ scraper'[j].pc = "fetch"
              /\ scraper'[j].i = scraper[j].i
              /\ scraper'[j].consecutive_failures = scraper[j].consecutive_failures]_vars

\* The requests the job's limiter has admitted since the last batch pause.
SincePause(j) == scraper[j].rate_limiter.total_requests - scraper[j].paused_at

\* C31: after every 10th request its limiter admits, a job takes a batch
\* pause (of 30 s plus 10 s per consecutive error) before the next request:
\* no more than 10 requests are admitted without a pause in between.
C31_PauseEveryBatch ==
    \A j \in Jobs : SincePause(j) <= BatchSize

\* C33: every fetch of a listing's detail, every retry included, comes after
\* a wait_if_needed() call of its own: the fetches made for a listing never
\* outnumber the limiter's admissions for that listing.
C33_GateBeforeEveryFetch ==
    \A j \in Jobs : scraper[j].attempts <= scraper[j].admissions

\* ---- Termination of a job
Terminal(j) == jobs[j].status \in {"completed", "failed"}

\* Every job that is started eventually has a terminal status.
EventuallyTerminal ==
    \A j \in Jobs : (jobs[j].status \in {"pending", "running"}) ~> Terminal(j)

\* C40: every job that is started reaches a terminal status, completed or
\* failed, as long as every call it makes returns or raises: a job whose run
\* is over has a terminal status, and its loop has made at most as many
\* iterations as there are listings to scrape.
C40_JobEndsTerminal ==
    \A j \in Jobs :
        /\ scraper[j].i <= scraper[j].todo
        /\ scraper[j].pc = "done" => Terminal(j)

=============================================================================
